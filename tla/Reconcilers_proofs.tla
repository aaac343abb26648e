------------------------- MODULE Reconcilers_proofs -------------------------
(***************************************************************************)
(* Theorems about Reconcilers, for any ResourceDistributions, Workloads    *)
(* and clusters, and any number of writes, failures and crashes.  They     *)
(* follow from Inv, of types and of Workloads without the finalizer, and   *)
(* from QInv, of Workloads that have not been applied yet.                 *)
(***************************************************************************)
EXTENDS Reconcilers, SequenceTheorems, TLAPS

Versions == [fin : BOOLEAN, del : BOOLEAN, gone : BOOLEAN, notes : BOOLEAN, n : Nat]
Objects == [n : Nat, rv : Nat]
Gots == [c : Clusters, o : Objects \cup {None}]
Pcs == {"idle", "start", "mark", "delete", "apply", "write", "done"}
Jobs == [pc : Pcs, at : Nat, todo : SUBSET (Clusters \cup Works),
         got : Gots \cup {None}, ok : BOOLEAN]

HistOK ==
    /\ hist \in [Keys -> Seq(Versions)]
    /\ \A k \in Keys : \A i \in 1..Len(hist[k]) : hist[k][i].n \in 1..Len(hist[k])

(* A reconciler has a key of its controller that the cache has had, and    *)
(* works on a version that there is.                                       *)
JobOK(p) ==
    /\ active[p] \in KeysOf(p) \cup {None}
    /\ job[p].pc = "idle" <=> active[p] = None
    /\ active[p] # None => seen[active[p]] >= 1
    /\ job[p].pc \in {"mark", "delete", "apply", "write"} =>
          job[p].at \in 1..Len(hist[active[p]])
    /\ job[p].pc = "write" => job[p].got \in Gots

Queues ==
    /\ pending \subseteq Keys /\ deferred \subseteq Keys
    /\ active \in [Procs -> Keys \cup {None}]
    /\ \A k \in pending \cup deferred : seen[k] >= 1

SeenOK == seen \in [Keys -> Nat] /\ \A k \in Keys : seen[k] <= Len(hist[k])

MemberOK ==
    /\ member \in [Clusters -> [Works -> Objects \cup {None}]]
    /\ \A c \in Clusters, k \in Works :
          member[c][k] # None => member[c][k].n \in 1..Len(hist[k])

Types ==
    /\ HistOK /\ SeenOK /\ Queues /\ MemberOK
    /\ job \in [Procs -> Jobs]
    /\ \A p \in Procs : JobOK(p)
    /\ watched \subseteq Policies
    /\ failed \subseteq Clusters \X Works /\ kept \subseteq Clusters \X Works

(* Kept by its finalizer. *)
Held(k) == Exists(k) /\ Latest(k).fin

(* A version that makes WorkReconciler apply it. *)
Live(v) == v.fin /\ ~v.del /\ ~v.gone

Clean(c, k) == member[c][k] # None => <<c, k>> \in kept

(* No object is left of a Workload without its finalizer, and the cache    *)
(* will not show one that is to be applied.                                *)
Safe(k) ==
    ~Held(k) =>
        /\ \A c \in Clusters : Clean(c, k)
        /\ \A i \in 1..Len(hist[k]) : i >= seen[k] => ~Live(hist[k][i])

(* WorkReconciler applies what its finalizer keeps, and deletes what the   *)
(* cache has had as deleted.                                               *)
WorkOK ==
    LET k == active["work"]
        j == job["work"]
    IN  /\ j.pc \in {"apply", "write"} => Held(k)
        /\ j.pc = "mark" => ~hist[k][j.at].gone
        /\ j.pc = "delete" =>
              /\ j.at <= seen[k] /\ hist[k][j.at].del
              /\ \A c \in Clusters \ j.todo : Clean(c, k)

Inv == Types /\ WorkOK /\ \A k \in Works : Safe(k)

-----------------------------------------------------------------------------
LEMMA KeyFacts ==
    /\ None \notin Keys /\ Works \subseteq Keys /\ Policies \subseteq Keys
    /\ "work" \in Procs /\ "policy" \in Procs /\ "work" # "policy"
    /\ KeysOf("work") = Works /\ KeysOf("policy") = Policies
    /\ \A p \in Procs : KeysOf(p) \subseteq Keys /\ p \in {"work", "policy"}
    /\ Works \cap Policies = {}
BY ReconcilerConstants DEF Keys, Procs, KeysOf

(* The history of one object gets one more version. *)
LEMMA StoreFacts ==
    ASSUME HistOK, NEW k \in Keys, NEW v \in Versions, Store(k, v),
           v.n \in 1..Len(hist[k]) + 1
    PROVE  /\ HistOK'
           /\ \A x \in Keys \ {k} : hist'[x] = hist[x]
           /\ Len(hist[k]) \in Nat /\ Len(hist'[k]) = Len(hist[k]) + 1
           /\ \A i \in 1..Len(hist[k]) : hist'[k][i] = hist[k][i]
           /\ hist'[k][Len(hist'[k])] = v
           /\ hist'[k] # <<>>
<1>1. hist[k] \in Seq(Versions) /\ Len(hist[k]) \in Nat
  BY LenProperties DEF HistOK
<1>2. /\ hist'[k] = Append(hist[k], v)
      /\ \A x \in Keys \ {k} : hist'[x] = hist[x]
      /\ hist' \in [Keys -> Seq(Versions)]
  <2>1. Append(hist[k], v) \in Seq(Versions)
    BY <1>1, AppendProperties
  <2>2. QED
    BY <2>1 DEF Store, HistOK
<1>3. /\ Len(hist'[k]) = Len(hist[k]) + 1
      /\ \A i \in 1..Len(hist[k]) : hist'[k][i] = hist[k][i]
      /\ hist'[k][Len(hist[k]) + 1] = v
      /\ hist'[k] # <<>>
  BY <1>1, <1>2, AppendProperties
<1>4. \A i \in 1..Len(hist'[k]) : hist'[k][i].n \in 1..Len(hist'[k])
  <2>1. SUFFICES ASSUME NEW i \in 1..Len(hist'[k])
                 PROVE  hist'[k][i].n \in 1..Len(hist'[k])
    OBVIOUS
  <2>2. CASE i \in 1..Len(hist[k])
    BY <1>1, <1>3, <2>2 DEF HistOK
  <2>3. CASE i = Len(hist[k]) + 1
    BY <1>1, <1>3, <2>3
  <2>4. QED
    BY <1>1, <1>3, <2>2, <2>3
<1>5. HistOK'
  BY <1>2, <1>4 DEF HistOK
<1>6. QED
  BY <1>1, <1>2, <1>3, <1>5

LEMMA LatestFacts ==
    ASSUME HistOK, NEW k \in Keys, Exists(k)
    PROVE  /\ Len(hist[k]) \in Nat \ {0}
           /\ Latest(k) \in Versions
           /\ Latest(k).n \in 1..Len(hist[k])
BY EmptySeq, LenProperties, ElementOfSeq DEF HistOK, Exists, Latest

(* Histories only grow. *)
Grows == \A k \in Keys : Len(hist[k]) \in Nat /\ Len(hist'[k]) \in Nat /\ Len(hist[k]) <= Len(hist'[k])

LEMMA GrowsIf ==
    ASSUME HistOK, HistOK',
           hist' = hist \/ \E k \in Keys : /\ \A x \in Keys \ {k} : hist'[x] = hist[x]
                                           /\ Len(hist'[k]) = Len(hist[k]) + 1
    PROVE  Grows
BY LenProperties DEF HistOK, Grows

(* What one user, or DeleteWork, stores. *)
Stored(k, v) ==
    /\ v \in Versions /\ v.n \in 1..Len(hist[k]) + 1
    /\ Store(k, v)
    /\ (v.fin /\ ~v.gone) \/ (~Held(k) /\ ~Live(v))

LEMMA DeleteStores ==
    ASSUME HistOK, NEW k \in Keys, Exists(k),
           Store(k, [Latest(k) EXCEPT !.del = TRUE, !.gone = ~Latest(k).fin])
    PROVE  \E v : Stored(k, v)
<1> DEFINE l == Latest(k)
           v == [l EXCEPT !.del = TRUE, !.gone = ~l.fin]
<1>1. /\ Len(hist[k]) \in Nat /\ l \in Versions /\ l.n \in 1..Len(hist[k]) + 1
      /\ Held(k) <=> l.fin
  BY LatestFacts DEF Held
<1> HIDE DEF l
<1>2. /\ v \in Versions /\ v.n = l.n /\ v.del /\ v.fin = l.fin /\ v.gone = ~l.fin
      /\ l.fin \in BOOLEAN
  BY <1>1 DEF Versions
<1> HIDE DEF v
<1>3. (v.fin /\ ~v.gone) \/ (~Held(k) /\ ~Live(v))
  BY <1>1, <1>2, Zenon DEF Live
<1>4. Store(k, v)
  BY DEF v, l
<1>5. Stored(k, v)
  BY <1>1, <1>2, <1>3, <1>4 DEF Stored
<1>6. QED
  BY <1>5

LEMMA UserStores ==
    ASSUME HistOK, NEW k \in Keys, User(k)
    PROVE  \E v : Stored(k, v)
<1>1. Len(hist[k]) \in Nat
  BY LenProperties DEF HistOK
<1>2. CASE /\ ~Exists(k)
           /\ \E notes \in BOOLEAN : Store(k, Version(Len(hist[k]) + 1, notes))
  <2>1. PICK notes \in BOOLEAN : Store(k, Version(Len(hist[k]) + 1, notes))
    BY <1>2
  <2>2. Stored(k, Version(Len(hist[k]) + 1, notes))
    BY <1>1, <1>2, <2>1 DEF Stored, Version, Versions, Held, Live
  <2>3. QED
    BY <2>2
<1>3. CASE /\ Exists(k)
           /\ Store(k, [Latest(k) EXCEPT !.n = Len(hist[k]) + 1])
  <2>1. Stored(k, [Latest(k) EXCEPT !.n = Len(hist[k]) + 1])
    BY <1>1, <1>3, LatestFacts DEF Stored, Versions, Held, Live, Exists
  <2>2. QED
    BY <2>1
<1>4. CASE /\ Exists(k) /\ ~Latest(k).del
           /\ Store(k, [Latest(k) EXCEPT !.del = TRUE, !.gone = ~Latest(k).fin])
  BY <1>4, DeleteStores
<1>5. QED
  BY <1>2, <1>3, <1>4 DEF User

-----------------------------------------------------------------------------
(* Type correctness *)

(* What another reconciler works on stays there. *)
LEMMA JobFrame ==
    ASSUME Types, NEW p \in Procs, Grows, seen' \in [Keys -> Nat],
           \A k \in Keys : seen[k] <= seen'[k],
           job'[p] = job[p], active'[p] = active[p]
    PROVE  JobOK(p)'
<1>1. JobOK(p) /\ active[p] \in Keys \cup {None} /\ seen \in [Keys -> Nat]
  BY DEF Types, Queues, SeenOK
<1>2. job[p].at \in Nat
  BY DEF Types, Jobs
<1>3. CASE active[p] = None
  BY <1>1, <1>3 DEF JobOK
<1>4. CASE active[p] \in Keys
  BY <1>1, <1>2, <1>4 DEF JobOK, Grows
<1>5. QED
  BY <1>1, <1>3, <1>4

LEMMA MemberFrame ==
    ASSUME Types, Grows, UNCHANGED member
    PROVE  MemberOK'
<1>1. ASSUME NEW c \in Clusters, NEW k \in Works, member[c][k] # None
      PROVE  member[c][k].n \in 1..Len(hist'[k])
  <2>1. member[c][k].n \in 1..Len(hist[k]) /\ k \in Keys
    BY <1>1, KeyFacts DEF Types, MemberOK
  <2>2. QED
    BY <2>1 DEF Grows
<1>2. QED
  BY <1>1 DEF Types, MemberOK

LEMMA SameGrows == ASSUME Types, UNCHANGED hist PROVE Grows /\ HistOK'
BY LenProperties DEF Types, HistOK, Grows

LEMMA SeenFrame ==
    ASSUME Types, Grows, UNCHANGED seen PROVE SeenOK'
<1>1. \A k \in Keys : seen[k] \in Nat /\ seen[k] <= Len(hist[k])
  BY DEF Types, SeenOK
<1>2. QED
  BY <1>1 DEF Types, SeenOK, Grows

LEMMA InitTypes == Init => Types
<1>1. SUFFICES ASSUME Init PROVE Types
  OBVIOUS
<1>2. Queues /\ \A p \in Procs : active[p] = None
  BY <1>1 DEF Init, Q!SFInit, Queues
<1>3. job \in [Procs -> Jobs] /\ \A p \in Procs : job[p].pc = "idle"
  BY <1>1 DEF Init, NoJob, Jobs, Pcs
<1>4. \A p \in Procs : JobOK(p)
  BY <1>2, <1>3 DEF JobOK
<1>5. HistOK /\ SeenOK
  <2>1. \A k \in Keys : hist[k] = <<>> /\ hist[k] \in Seq(Versions) /\ Len(hist[k]) = 0 /\ seen[k] = 0
    BY <1>1, EmptySeq DEF Init
  <2>2. QED
    BY <1>1, <2>1 DEF Init, HistOK, SeenOK
<1>6. MemberOK
  BY <1>1 DEF Init, MemberOK
<1>7. QED
  BY <1>1, <1>2, <1>3, <1>4, <1>5, <1>6 DEF Init, Types

(* Steps that only add a version. *)
LEMMA StoredTypes ==
    ASSUME Types, NEW k \in Keys, NEW v, Stored(k, v)
    PROVE  HistOK' /\ Grows
<1>1. /\ HistOK' /\ Len(hist'[k]) = Len(hist[k]) + 1
      /\ \A x \in Keys \ {k} : hist'[x] = hist[x]
  BY StoreFacts DEF Types, Stored
<1>2. QED
  BY <1>1, GrowsIf DEF Types

LEMMA UserTypes == ASSUME Types, NEW k \in Keys, User(k) PROVE Types'
<1>1. HistOK' /\ Grows
  BY UserStores, StoredTypes DEF Types
<1>2. UNCHANGED <<seen, pending, deferred, active, job, member, watched, failed, kept>>
  BY DEF User, workqueue, history
<1>3. \A p \in Procs : JobOK(p)'
  BY <1>1, <1>2, JobFrame DEF Types, SeenOK
<1>4. QED
  BY <1>1, <1>2, <1>3, MemberFrame, SeenFrame DEF Types, Queues

LEMMA TouchTypes ==
    ASSUME Types, NEW c \in Clusters, NEW k \in Works, Touch(c, k) PROVE Types'
<1>1. UNCHANGED <<hist, seen, pending, deferred, active, job, watched, failed, kept>>
  BY DEF Touch, workqueue, history
<1>2. HistOK' /\ Grows
  BY <1>1, SameGrows
<1>3. \A p \in Procs : JobOK(p)'
  BY <1>1, <1>2, JobFrame DEF Types, SeenOK
<1>4. MemberOK'
  <2>1. member[c][k] \in Objects /\ member[c][k].n \in 1..Len(hist[k])
    BY DEF Touch, Types, MemberOK
  <2> DEFINE o == [member[c][k] EXCEPT !.rv = @ + 1]
  <2>2. o \in Objects /\ o.n = member[c][k].n
    BY <2>1 DEF Objects
  <2>3. member' = [member EXCEPT ![c] = [@ EXCEPT ![k] = o]]
    BY DEF Touch
  <2> HIDE DEF o
  <2>4. /\ member'[c][k] = o
        /\ \A d \in Clusters, x \in Works : d # c \/ x # k => member'[d][x] = member[d][x]
        /\ member' \in [Clusters -> [Works -> Objects \cup {None}]]
    BY <2>2, <2>3 DEF Types, MemberOK
  <2>5. QED
    BY <1>1, <2>1, <2>2, <2>4 DEF Types, MemberOK
<1>5. QED
  BY <1>1, <1>2, <1>3, <1>4, SeenFrame DEF Types, Queues

LEMMA DeliverTypes == ASSUME Types, NEW k \in Keys, Deliver(k) PROVE Types'
<1>1. /\ UNCHANGED <<hist, deferred, active, job, member, watched, failed, kept>>
      /\ seen[k] < Len(hist[k]) /\ seen' = [seen EXCEPT ![k] = @ + 1]
      /\ pending' = pending \cup {k}
  BY DEF Deliver, Q!Request, history
<1>2. HistOK' /\ Grows
  BY <1>1, SameGrows
<1>3. /\ seen' \in [Keys -> Nat] /\ \A x \in Keys : seen[x] <= seen'[x]
      /\ \A x \in Keys : seen'[x] <= Len(hist'[x])
      /\ seen'[k] >= 1
  <2>1. \A x \in Keys : seen[x] \in Nat /\ Len(hist[x]) \in Nat /\ seen[x] <= Len(hist[x])
    BY <1>2 DEF Types, SeenOK, Grows
  <2>2. seen'[k] = seen[k] + 1 /\ \A x \in Keys \ {k} : seen'[x] = seen[x]
    BY <1>1 DEF Types, SeenOK
  <2>3. \A x \in Keys : seen'[x] \in Nat /\ seen[x] <= seen'[x] /\ seen'[x] <= Len(hist[x])
    BY <1>1, <2>1, <2>2
  <2>4. QED
    BY <1>1, <2>1, <2>2, <2>3 DEF Types, SeenOK
<1>4. \A p \in Procs : JobOK(p)'
  BY <1>1, <1>2, <1>3, JobFrame DEF Types, SeenOK
<1>5. Queues'
  <2>1. \A x \in pending \cup deferred : seen'[x] >= 1
    <3>1. SUFFICES ASSUME NEW x \in pending \cup deferred PROVE seen'[x] >= 1
      OBVIOUS
    <3>2. x \in Keys /\ seen[x] >= 1 /\ seen[x] \in Nat /\ seen'[x] \in Nat
      BY <1>3 DEF Types, Queues, SeenOK
    <3>3. QED
      BY <1>3, <3>2
  <2>2. QED
    BY <1>1, <1>3, <2>1 DEF Types, Queues
<1>6. QED
  BY <1>1, <1>2, <1>3, <1>4, <1>5, MemberFrame DEF Types, SeenOK

LEMMA FireTypes == ASSUME Types, NEW k \in Keys, Fire(k) PROVE Types'
<1>1. /\ UNCHANGED <<hist, seen, active, job, member, watched, failed, kept>>
      /\ k \in deferred /\ deferred' \subseteq deferred /\ pending' = pending \cup {k}
  BY DEF Fire, Q!Fire, history
<1>2. HistOK' /\ Grows
  BY <1>1, SameGrows
<1>3. \A p \in Procs : JobOK(p)'
  BY <1>1, <1>2, JobFrame DEF Types, SeenOK
<1>4. QED
  BY <1>1, <1>2, <1>3, MemberFrame, SeenFrame DEF Types, Queues

LEMMA BeginTypes ==
    ASSUME Types, NEW p \in Procs, NEW k \in Keys, Begin(p, k) PROVE Types'
<1>1. /\ UNCHANGED <<hist, seen, deferred, member, watched, failed, kept>>
      /\ k \in pending /\ pending' \subseteq pending /\ k \in KeysOf(p)
      /\ active' = [active EXCEPT ![p] = k]
      /\ job' = [job EXCEPT ![p] = [NoJob EXCEPT !.pc = "start"]]
  BY DEF Begin, Q!Begin, history, Become
<1>2. HistOK' /\ Grows
  BY <1>1, SameGrows
<1>3. [NoJob EXCEPT !.pc = "start"] \in Jobs
  BY DEF NoJob, Jobs, Pcs
<1>4. job' \in [Procs -> Jobs] /\ active' \in [Procs -> Keys \cup {None}]
  BY <1>1, <1>3 DEF Types, Queues
<1>5. JobOK(p)'
  <2>1. job'[p].pc = "start" /\ active'[p] = k /\ k # None /\ seen[k] >= 1
    BY <1>1, KeyFacts DEF Types, Queues, NoJob
  <2>2. QED
    BY <1>1, <2>1 DEF JobOK
<1>6. \A q \in Procs \ {p} : JobOK(q)'
  <2>1. \A q \in Procs \ {p} : job'[q] = job[q] /\ active'[q] = active[q]
    BY <1>1 DEF Types, Queues
  <2>2. QED
    BY <1>1, <1>2, <2>1, JobFrame DEF Types, SeenOK
<1>7. QED
  BY <1>1, <1>2, <1>4, <1>5, <1>6, MemberFrame, SeenFrame DEF Types, Queues

(* A step of one reconciler. *)
LEMMA JobStep ==
    ASSUME Types, NEW p \in Procs, NEW j \in Jobs, HistOK', Grows, MemberOK',
           UNCHANGED <<seen, pending, deferred, active>>,
           watched' \subseteq Policies,
           failed' \subseteq Clusters \X Works, kept' \subseteq Clusters \X Works,
           job' = [job EXCEPT ![p] = j], job[p].pc # "idle", j.pc # "idle",
           j.pc \in {"mark", "delete", "apply", "write"} =>
              j.at \in 1..Len(hist'[active[p]]),
           j.pc = "write" => j.got \in Gots
    PROVE  Types'
<1>1. job' \in [Procs -> Jobs] /\ job'[p] = j
  BY DEF Types
<1>2. JobOK(p)'
  BY <1>1 DEF Types, JobOK
<1>3. \A q \in Procs \ {p} : JobOK(q)'
  <2>1. \A q \in Procs \ {p} : job'[q] = job[q] /\ active'[q] = active[q]
    BY DEF Types
  <2>2. seen' \in [Keys -> Nat] /\ \A k \in Keys : seen[k] <= seen'[k]
    BY DEF Types, SeenOK
  <2>3. QED
    BY <2>1, <2>2, JobFrame
<1>4. Queues' /\ SeenOK'
  BY SeenFrame DEF Types, Queues
<1>5. QED
  BY <1>1, <1>2, <1>3, <1>4 DEF Types

(* A worker that is not idle has a key. *)
LEMMA BusyFacts ==
    ASSUME Types, NEW p \in Procs, job[p].pc # "idle"
    PROVE  /\ active[p] \in KeysOf(p) /\ active[p] \in Keys
           /\ seen[active[p]] \in 1..Len(hist[active[p]])
           /\ hist[active[p]] \in Seq(Versions)
           /\ \A i \in 1..Len(hist[active[p]]) :
                 hist[active[p]][i] \in Versions /\ hist[active[p]][i].n \in 1..Len(hist[active[p]])
           /\ Len(hist[active[p]]) \in Nat
           /\ job[p] \in Jobs
           /\ job[p].pc \in {"mark", "delete", "apply", "write"} =>
                 job[p].at \in 1..Len(hist[active[p]])
<1>1. JobOK(p) /\ active[p] # None
  BY DEF Types, JobOK
<1>2. active[p] \in KeysOf(p) /\ active[p] \in Keys
  BY <1>1, KeyFacts DEF JobOK
<1>3. /\ hist[active[p]] \in Seq(Versions) /\ Len(hist[active[p]]) \in Nat
      /\ \A i \in 1..Len(hist[active[p]]) :
            hist[active[p]][i] \in Versions /\ hist[active[p]][i].n \in 1..Len(hist[active[p]])
  BY <1>2, LenProperties, ElementOfSeq DEF Types, HistOK
<1>4. seen[active[p]] \in 1..Len(hist[active[p]])
  BY <1>1, <1>2, <1>3 DEF Types, SeenOK, JobOK
<1>5. QED
  BY <1>1, <1>2, <1>3, <1>4 DEF Types, JobOK

LEMMA FinishIsJob == \A ok \in BOOLEAN : Finish(ok) \in Jobs /\ Finish(ok).pc = "done"
BY DEF Finish, NoJob, Jobs, Pcs

LEMMA MarkedIsJob ==
    \A at \in Nat : Marked(at) \in Jobs /\ Marked(at).pc = "apply" /\ Marked(at).at = at
BY DEF Marked, NoJob, Jobs, Pcs

LEMMA GetTypes == ASSUME Types, NEW p \in Procs, Get(p) PROVE Types'
<1> DEFINE k == active[p]
           here == [NoJob EXCEPT !.at = seen[k]]
<1>1. /\ UNCHANGED <<hist, seen, pending, deferred, active, member, watched, failed, kept>>
      /\ job[p].pc = "start"
  BY DEF Get, workqueue, history
<1>2. seen[k] \in Nat /\ seen[k] \in 1..Len(hist[k])
  BY <1>1, BusyFacts
<1>3. PICK j : /\ job' = [job EXCEPT ![p] = j]
               /\ j \in {Finish(TRUE),
                         [here EXCEPT !.pc = "delete", !.todo = External(p)],
                         [here EXCEPT !.pc = "mark"],
                         [here EXCEPT !.pc = "apply", !.todo = Clusters]}
  BY DEF Get, Become
<1>4. j \in Jobs /\ j.pc \in {"done", "delete", "mark", "apply"} /\ (j.pc # "done" => j.at = seen[k])
  <2>1. External(p) \subseteq Clusters \cup Works
    BY DEF External
  <2>2. CASE j = Finish(TRUE)
    BY <2>2, FinishIsJob
  <2>3. CASE j = [here EXCEPT !.pc = "delete", !.todo = External(p)]
    BY <1>2, <2>1, <2>3 DEF NoJob, Jobs, Pcs
  <2>4. CASE j = [here EXCEPT !.pc = "mark"]
    BY <1>2, <2>4 DEF NoJob, Jobs, Pcs
  <2>5. CASE j = [here EXCEPT !.pc = "apply", !.todo = Clusters]
    BY <1>2, <2>5 DEF NoJob, Jobs, Pcs
  <2>6. QED
    BY <1>3, <2>2, <2>3, <2>4, <2>5
<1>5. HistOK' /\ Grows
  BY <1>1, SameGrows
<1>6. MemberOK'
  BY <1>1, <1>5, MemberFrame
<1> HIDE DEF k, here
<1>7. QED
  BY <1>1, <1>2, <1>3, <1>4, <1>5, <1>6, JobStep DEF Types, k

(* Update of a version v of the object. *)
LEMMA UpdateFacts ==
    ASSUME Types, NEW p \in Procs, NEW v, NEW next, Update(p, v, next)
    PROVE  \/ /\ job[p].at = Len(hist[active[p]]) /\ Store(active[p], v)
              /\ job' = [job EXCEPT ![p] = next] \/ job' = [job EXCEPT ![p] = Finish(FALSE)]
           \/ UNCHANGED hist /\ job' = [job EXCEPT ![p] = Finish(FALSE)]
BY DEF Update, Become

LEMMA UpdateTypes ==
    ASSUME Types, NEW p \in Procs, job[p].pc \in {"mark", "delete"},
           NEW v \in Versions, v.n \in 1..Len(hist[active[p]]),
           NEW next \in Jobs, next.pc \in {"apply", "done"},
           next.pc = "apply" => next.at = job[p].at + 1,
           Update(p, v, next),
           UNCHANGED <<seen, pending, deferred, active, member, watched, failed, kept>>
    PROVE  Types'
<1> DEFINE k == active[p]
<1>1. k \in Keys /\ Len(hist[k]) \in Nat /\ job[p].at \in Nat
  BY BusyFacts DEF Jobs
<1>2. CASE UNCHANGED hist /\ job' = [job EXCEPT ![p] = Finish(FALSE)]
  <2>1. HistOK' /\ Grows
    BY <1>2, SameGrows
  <2>2. MemberOK'
    BY <2>1, MemberFrame
  <2>3. QED
    BY <1>2, <2>1, <2>2, FinishIsJob, JobStep DEF Types
<1>3. CASE /\ job[p].at = Len(hist[k]) /\ Store(k, v)
           /\ job' = [job EXCEPT ![p] = next] \/ job' = [job EXCEPT ![p] = Finish(FALSE)]
  <2>1. v.n \in 1..Len(hist[k]) + 1
    BY <1>1
  <2>2. /\ HistOK' /\ Len(hist'[k]) = Len(hist[k]) + 1
        /\ \A x \in Keys \ {k} : hist'[x] = hist[x]
    BY <1>1, <1>3, <2>1, StoreFacts DEF Types
  <2>3. Grows
    BY <1>1, <2>2, GrowsIf DEF Types
  <2>4. MemberOK'
    BY <2>3, MemberFrame
  <2>5. PICK j \in {next, Finish(FALSE)} : job' = [job EXCEPT ![p] = j]
    BY <1>3
  <2>6. /\ j \in Jobs /\ j.pc \in {"apply", "done"}
        /\ j.pc = "apply" => j.at \in 1..Len(hist'[k])
    <3>1. CASE j = Finish(FALSE)
      BY <3>1, FinishIsJob
    <3>2. CASE j = next
      <4>1. job[p].at + 1 \in 1..Len(hist'[k])
        BY <1>1, <1>3, <2>2
      <4>2. QED
        BY <3>2, <4>1
    <3>3. QED
      BY <2>5, <3>1, <3>2
  <2>7. QED
    BY <2>2, <2>3, <2>4, <2>5, <2>6, JobStep DEF Types
<1>4. QED
  BY <1>2, <1>3, UpdateFacts

LEMMA CopyFacts ==
    ASSUME Types, NEW p \in Procs, job[p].pc \in {"mark", "delete"}
    PROVE  /\ Copy(p) \in Versions /\ Copy(p).n \in 1..Len(hist[active[p]])
           /\ job[p].at \in Nat /\ job[p].at \in 1..Len(hist[active[p]])
BY BusyFacts DEF Copy, Jobs

LEMMA MarkTypes == ASSUME Types, NEW p \in Procs, Mark(p) PROVE Types'
<1> DEFINE v == [Copy(p) EXCEPT !.fin = TRUE]
<1>1. /\ job[p].pc = "mark" /\ Update(p, v, Marked(job[p].at + 1))
      /\ UNCHANGED <<seen, pending, deferred, active, member, watched, failed, kept>>
  BY DEF Mark, workqueue, history
<1>2. v \in Versions /\ v.n \in 1..Len(hist[active[p]]) /\ job[p].at \in Nat
  BY <1>1, CopyFacts DEF Versions
<1> HIDE DEF v
<1>3. QED
  BY <1>1, <1>2, MarkedIsJob, UpdateTypes

LEMMA ReleaseTypes == ASSUME Types, NEW p \in Procs, Release(p) PROVE Types'
<1> DEFINE v == [Copy(p) EXCEPT !.fin = FALSE, !.gone = TRUE]
<1>1. /\ job[p].pc = "delete" /\ Update(p, v, Finish(TRUE))
      /\ UNCHANGED <<seen, pending, deferred, active, member, watched, failed, kept>>
  BY DEF Release, Released, workqueue, history
<1>2. v \in Versions /\ v.n \in 1..Len(hist[active[p]])
  BY <1>1, CopyFacts DEF Versions
<1> HIDE DEF v
<1>3. QED
  BY <1>1, <1>2, FinishIsJob, UpdateTypes

LEMMA RestartTypes == ASSUME Types, Restarted PROVE Types'
<1>1. /\ seen' = [k \in Keys |-> Len(hist[k])]
      /\ pending' = {k \in Keys : Exists(k)} /\ deferred' = {}
      /\ active' = [p \in Procs |-> None] /\ job' = [p \in Procs |-> NoJob]
      /\ watched' = {} /\ UNCHANGED <<hist, member, failed, kept>>
  BY DEF Restarted, history
<1>2. HistOK' /\ Grows
  BY <1>1, SameGrows
<1>3. SeenOK' /\ \A k \in pending' : seen'[k] >= 1
  <2>1. \A k \in Keys : Len(hist[k]) \in Nat /\ hist'[k] = hist[k]
    BY <1>1, <1>2 DEF Grows
  <2>2. \A k \in Keys : Exists(k) => Len(hist[k]) >= 1
    BY LatestFacts DEF Types
  <2>3. QED
    BY <1>1, <2>1, <2>2 DEF SeenOK
<1>4. job' \in [Procs -> Jobs] /\ \A p \in Procs : job'[p].pc = "idle" /\ active'[p] = None
  BY <1>1 DEF NoJob, Jobs, Pcs
<1>5. \A p \in Procs : JobOK(p)'
  BY <1>4 DEF JobOK
<1>6. Queues'
  BY <1>1, <1>3 DEF Queues
<1>7. QED
  BY <1>1, <1>2, <1>3, <1>4, <1>5, <1>6, MemberFrame DEF Types

LEMMA DeleteWorkTypes == ASSUME Types, NEW w \in Works, DeleteWork(w) PROVE Types'
<1> DEFINE j == [job["policy"] EXCEPT !.todo = @ \ {w}]
<1>1. /\ job["policy"].pc = "delete"
      /\ UNCHANGED <<seen, pending, deferred, active, member, watched, failed, kept>>
      /\ job' = [job EXCEPT !["policy"] = j] \/ job' = [job EXCEPT !["policy"] = Finish(FALSE)]
  BY DEF DeleteWork, Become, workqueue, history
<1>2. HistOK' /\ Grows
  <2>1. CASE UNCHANGED hist
    BY <2>1, SameGrows
  <2>2. CASE /\ Exists(w)
             /\ Store(w, [Latest(w) EXCEPT !.del = TRUE, !.gone = ~Latest(w).fin])
    BY <2>2, DeleteStores, StoredTypes, KeyFacts DEF Types
  <2>3. QED
    BY <2>1, <2>2 DEF DeleteWork
<1>3. MemberOK'
  BY <1>1, <1>2, MemberFrame
<1>4. /\ j \in Jobs /\ j.pc = "delete" /\ j.at = job["policy"].at
      /\ j.at \in 1..Len(hist[active["policy"]]) /\ active["policy"] \in Keys
  BY <1>1, BusyFacts, KeyFacts DEF Jobs
<1>5. j.at \in 1..Len(hist'[active["policy"]])
  BY <1>2, <1>4 DEF Grows
<1> HIDE DEF j
<1>6. CASE job' = [job EXCEPT !["policy"] = j]
  BY <1>1, <1>2, <1>3, <1>4, <1>5, <1>6, KeyFacts, JobStep DEF Types
<1>7. CASE job' = [job EXCEPT !["policy"] = Finish(FALSE)]
  BY <1>1, <1>2, <1>3, <1>7, KeyFacts, FinishIsJob, JobStep DEF Types
<1>8. QED
  BY <1>1, <1>6, <1>7

(* A step of WorkReconciler, which writes no history, and changes at most  *)
(* one object.                                                             *)
LEMMA WorkStep ==
    ASSUME Types, job["work"].pc # "idle", NEW j \in Jobs, MemberOK',
           UNCHANGED <<hist, seen, pending, deferred, active, watched>>,
           failed' \subseteq Clusters \X Works, kept' \subseteq Clusters \X Works,
           job' = [job EXCEPT !["work"] = j], j.pc # "idle",
           j.pc \in {"mark", "delete", "apply", "write"} => j.at = job["work"].at,
           job["work"].pc \in {"mark", "delete", "apply", "write"},
           j.pc = "write" => j.got \in Gots
    PROVE  Types'
<1>1. HistOK' /\ Grows
  BY SameGrows
<1>2. job["work"].at \in 1..Len(hist'[active["work"]])
  BY BusyFacts, KeyFacts
<1>3. QED
  BY <1>1, <1>2, JobStep, KeyFacts DEF Types

(* What becomes of the object of k in c. *)
LEMMA MemberStep ==
    ASSUME Types, NEW c \in Clusters, NEW k \in Works, NEW o, UNCHANGED hist,
           o = None \/ (o \in Objects /\ o.n \in 1..Len(hist[k])),
           member' = [member EXCEPT ![c] = [@ EXCEPT ![k] = o]]
    PROVE  /\ MemberOK'
           /\ member'[c][k] = o
           /\ \A d \in Clusters, x \in Works : d # c \/ x # k => member'[d][x] = member[d][x]
<1>1. /\ member'[c][k] = o
      /\ \A d \in Clusters, x \in Works : d # c \/ x # k => member'[d][x] = member[d][x]
      /\ member' \in [Clusters -> [Works -> Objects \cup {None}]]
  BY DEF Types, MemberOK
<1>2. \A d \in Clusters, x \in Works :
         member'[d][x] # None => member'[d][x].n \in 1..Len(hist[x])
  BY <1>1 DEF Types, MemberOK
<1>3. QED
  BY <1>1, <1>2 DEF MemberOK

LEMMA SameMember == ASSUME Types, UNCHANGED <<hist, member>> PROVE MemberOK'
BY DEF Types, MemberOK

LEMMA TurnIsJob ==
    ASSUME Types, NEW c
    PROVE  /\ Turn(c) \in Jobs /\ Turn(c).pc = "apply" /\ Turn(c).at = job["work"].at
           /\ LET j == [job["work"] EXCEPT !.todo = @ \ {c}]
              IN  /\ j \in Jobs /\ j.pc = job["work"].pc /\ j.at = job["work"].at
                  /\ j.got = job["work"].got /\ j.todo = job["work"].todo \ {c}
<1>1. job["work"] \in Jobs
  BY KeyFacts DEF Types
<1>2. QED
  BY <1>1 DEF Turn, Jobs, Pcs

LEMMA DeleteObjectTypes == ASSUME Types, NEW c \in Clusters, DeleteObject(c) PROVE Types'
<1> DEFINE k == active["work"]
           j == [job["work"] EXCEPT !.todo = @ \ {c}]
<1>1. /\ job["work"].pc = "delete"
      /\ UNCHANGED <<hist, seen, pending, deferred, active, watched, failed>>
      /\ job' = [job EXCEPT !["work"] = j]
      /\ kept' \subseteq kept \cup {<<c, k>>}
      /\ member' = [member EXCEPT ![c] = [@ EXCEPT ![k] = None]] \/ member' = member
  BY DEF DeleteObject, workqueue, history
<1>2. k \in Works
  BY <1>1, BusyFacts, KeyFacts
<1>3. MemberOK'
  BY <1>1, <1>2, MemberStep, SameMember
<1>4. j \in Jobs /\ j.pc = "delete" /\ j.at = job["work"].at
  BY <1>1, TurnIsJob
<1> HIDE DEF j, k
<1>5. failed' \subseteq Clusters \X Works /\ kept' \subseteq Clusters \X Works
  BY <1>1, <1>2 DEF Types
<1>6. QED
  BY <1>1, <1>3, <1>4, <1>5, WorkStep

LEMMA LeaveOutTypes == ASSUME Types, NEW c \in Clusters, LeaveOut(c) PROVE Types'
<1> DEFINE k == active["work"]
           j == [job["work"] EXCEPT !.todo = @ \ {c}]
<1>1. /\ job["work"].pc \in {"delete", "apply"}
      /\ UNCHANGED <<hist, seen, pending, deferred, active, watched, member>>
      /\ job' = [job EXCEPT !["work"] = j]
      /\ kept' \subseteq kept \cup {<<c, k>>} /\ failed' \subseteq failed \cup {<<c, k>>}
  BY DEF LeaveOut, workqueue
<1>2. k \in Works
  BY <1>1, BusyFacts, KeyFacts
<1>3. MemberOK'
  BY <1>1, SameMember
<1>4. j \in Jobs /\ j.pc \in {"delete", "apply"} /\ j.at = job["work"].at
  BY <1>1, TurnIsJob
<1> HIDE DEF j, k
<1>5. failed' \subseteq Clusters \X Works /\ kept' \subseteq Clusters \X Works
  BY <1>1, <1>2 DEF Types
<1>6. QED
  BY <1>1, <1>3, <1>4, <1>5, WorkStep

LEMMA GetObjectTypes == ASSUME Types, NEW c \in Clusters, GetObject(c) PROVE Types'
<1> DEFINE k == active["work"]
           o == member[c][k]
           i == [job["work"] EXCEPT !.pc = "write", !.got = [c |-> c, o |-> o]]
<1>1. /\ job["work"].pc = "apply"
      /\ UNCHANGED <<hist, seen, pending, deferred, active, watched, member, kept>>
      /\ job' = [job EXCEPT !["work"] = Turn(c)] \/ job' = [job EXCEPT !["work"] = i]
      /\ failed' \subseteq failed \cup {<<c, k>>}
  BY DEF GetObject, Become, workqueue
<1>2. k \in Works /\ job["work"] \in Jobs
  BY <1>1, BusyFacts, KeyFacts
<1>3. MemberOK'
  BY <1>1, SameMember
<1>4. i \in Jobs /\ i.pc = "write" /\ i.at = job["work"].at /\ i.got \in Gots
  <2>1. [c |-> c, o |-> o] \in Gots
    BY <1>2 DEF Gots, Types, MemberOK
  <2>2. QED
    BY <1>2, <2>1 DEF Jobs, Pcs
<1> HIDE DEF i, k
<1>5. failed' \subseteq Clusters \X Works /\ kept' \subseteq Clusters \X Works
  BY <1>1, <1>2 DEF Types
<1>6. CASE job' = [job EXCEPT !["work"] = i]
  BY <1>1, <1>3, <1>4, <1>5, <1>6, WorkStep
<1>7. CASE job' = [job EXCEPT !["work"] = Turn(c)]
  BY <1>1, <1>3, <1>5, <1>7, TurnIsJob, WorkStep
<1>8. QED
  BY <1>1, <1>6, <1>7

LEMMA WriteObjectTypes == ASSUME Types, WriteObject PROVE Types'
<1> DEFINE k == active["work"]
           c == job["work"].got.c
           o == member[c][k]
           sent == [n |-> hist[k][job["work"].at].n, rv |-> IF o = None THEN 1 ELSE o.rv + 1]
<1>1. /\ job["work"].pc = "write"
      /\ UNCHANGED <<hist, seen, pending, deferred, active, watched, kept>>
      /\ job' = [job EXCEPT !["work"] = Turn(c)]
      /\ failed' \subseteq failed \cup {<<c, k>>}
      /\ member' = [member EXCEPT ![c] = [@ EXCEPT ![k] = sent]] \/ member' = member
  BY DEF WriteObject, Become, workqueue
<1>2. k \in Works
  BY <1>1, BusyFacts, KeyFacts
<1>3. c \in Clusters
  BY <1>1, KeyFacts DEF Types, JobOK, Gots
<1>4. sent \in Objects /\ sent.n \in 1..Len(hist[k])
  <2>1. hist[k][job["work"].at].n \in Nat /\ hist[k][job["work"].at].n \in 1..Len(hist[k])
    BY <1>1, BusyFacts, KeyFacts DEF Versions
  <2>2. o = None \/ o.rv \in Nat
    BY <1>2, <1>3 DEF Types, MemberOK, Objects
  <2> DEFINE m == hist[k][job["work"].at].n
             rv == IF o = None THEN 1 ELSE o.rv + 1
  <2>3. rv \in Nat
    BY <2>2
  <2>4. sent = [n |-> m, rv |-> rv]
    OBVIOUS
  <2> HIDE DEF m, rv, sent
  <2>5. sent \in Objects /\ sent.n = m
    <3>1. m \in Nat
      BY <2>1 DEF m
    <3>2. QED
      BY <2>3, <2>4, <3>1 DEF Objects
  <2>6. QED
    BY <2>1, <2>5 DEF m
<1> HIDE DEF sent
<1>5. MemberOK'
  BY <1>1, <1>2, <1>3, <1>4, MemberStep, SameMember
<1> HIDE DEF c, k
<1>6. failed' \subseteq Clusters \X Works /\ kept' \subseteq Clusters \X Works
  BY <1>1, <1>2, <1>3 DEF Types
<1>7. QED
  BY <1>1, <1>5, <1>6, TurnIsJob, WorkStep

LEMMA SyncedTypes == ASSUME Types, Synced PROVE Types'
<1>1. /\ job["work"].pc = "apply"
      /\ UNCHANGED <<hist, seen, pending, deferred, active, watched, member, failed, kept>>
      /\ job' = [job EXCEPT !["work"] = Finish(TRUE)]
  BY DEF Synced, Become, workqueue, history
<1>2. QED
  BY <1>1, FinishIsJob, SameMember, WorkStep DEF Types

LEMMA WatchTypes == ASSUME Types, Watch PROVE Types'
<1>1. /\ job["policy"].pc = "apply"
      /\ UNCHANGED <<hist, seen, pending, deferred, active, member, failed, kept>>
      /\ job' = [job EXCEPT !["policy"] = Finish(TRUE)]
      /\ watched' \subseteq watched \cup {active["policy"]}
  BY DEF Watch, Become, workqueue, history
<1>2. active["policy"] \in Policies
  BY <1>1, BusyFacts, KeyFacts
<1>3. QED
  BY <1>1, <1>2, FinishIsJob, SameMember, SameGrows, KeyFacts, JobStep DEF Types

LEMMA FailTypes == ASSUME Types, NEW p \in Procs, Fail(p) PROVE Types'
<1>1. /\ job[p].pc = "done"
      /\ UNCHANGED <<hist, seen, pending, active, member, watched, failed, kept>>
      /\ deferred' = deferred \cup {active[p]}
      /\ job' = [job EXCEPT ![p] = Finish(TRUE)]
  BY DEF Fail, Q!Defer, Become, history
<1>2. active[p] \in Keys /\ seen[active[p]] >= 1
  BY <1>1, BusyFacts DEF Types, JobOK
<1>3. HistOK' /\ Grows /\ MemberOK'
  BY <1>1, SameGrows, SameMember
<1>4. Queues' /\ SeenOK'
  BY <1>1, <1>2, <1>3, SeenFrame DEF Types, Queues
<1>5. job' \in [Procs -> Jobs] /\ job'[p].pc = "done"
  BY <1>1, FinishIsJob DEF Types
<1>6. JobOK(p)'
  BY <1>1, <1>5 DEF Types, JobOK
<1>7. \A q \in Procs \ {p} : JobOK(q)'
  <2>1. \A q \in Procs \ {p} : job'[q] = job[q] /\ active'[q] = active[q]
    BY <1>1 DEF Types
  <2>2. seen' \in [Keys -> Nat] /\ \A k \in Keys : seen[k] <= seen'[k]
    BY <1>1 DEF Types, SeenOK
  <2>3. QED
    BY <1>3, <2>1, <2>2, JobFrame
<1>8. QED
  BY <1>1, <1>3, <1>4, <1>5, <1>6, <1>7 DEF Types

LEMMA DoneTypes == ASSUME Types, NEW p \in Procs, Done(p) PROVE Types'
<1>1. /\ UNCHANGED <<hist, seen, pending, deferred, member, watched, failed, kept>>
      /\ active' = [active EXCEPT ![p] = None]
      /\ job' = [job EXCEPT ![p] = NoJob]
  BY DEF Done, Q!End, Become, history
<1>2. HistOK' /\ Grows /\ MemberOK'
  BY <1>1, SameGrows, SameMember
<1>3. Queues' /\ SeenOK'
  BY <1>1, <1>2, SeenFrame DEF Types, Queues
<1>4. NoJob \in Jobs /\ NoJob.pc = "idle"
  BY DEF NoJob, Jobs, Pcs
<1>5. /\ job' \in [Procs -> Jobs] /\ job'[p].pc = "idle" /\ active'[p] = None
      /\ \A q \in Procs \ {p} : job'[q] = job[q] /\ active'[q] = active[q]
  BY <1>1, <1>4 DEF Types, Queues
<1>6. JobOK(p)'
  BY <1>5 DEF JobOK
<1>7. \A q \in Procs \ {p} : JobOK(q)'
  BY <1>1, <1>2, <1>5, JobFrame DEF Types, SeenOK
<1>8. QED
  BY <1>1, <1>2, <1>3, <1>5, <1>6, <1>7 DEF Types

LEMMA StutterTypes == ASSUME Types, UNCHANGED vars PROVE Types'
<1>1. UNCHANGED <<hist, seen, pending, deferred, active, job, member, watched, failed, kept>>
  BY DEF vars, workqueue, history
<1>2. HistOK' /\ Grows /\ MemberOK'
  BY <1>1, SameGrows, SameMember
<1>3. \A p \in Procs : JobOK(p)'
  BY <1>1, <1>2, JobFrame DEF Types, SeenOK
<1>4. QED
  BY <1>1, <1>2, <1>3, SeenFrame DEF Types, Queues

LEMMA NextTypes == Types /\ [Next]_vars => Types'
<1>1. SUFFICES ASSUME Types, [Next]_vars PROVE Types'
  OBVIOUS
<1>2. ASSUME NEW k \in Keys,
             User(k) \/ Deliver(k) \/ Fire(k) \/ \E p \in Procs : Begin(p, k)
      PROVE  Types'
  BY <1>1, <1>2, UserTypes, DeliverTypes, FireTypes, BeginTypes
<1>3. ASSUME NEW c \in Clusters, NEW k \in Works, Touch(c, k) PROVE Types'
  BY <1>1, <1>3, TouchTypes
<1>4. ASSUME NEW p \in Procs, Reconcile(p) PROVE Types'
  BY <1>1, <1>4, GetTypes, MarkTypes, ReleaseTypes, FailTypes, DoneTypes DEF Reconcile
<1>5. ASSUME NEW c \in Clusters, LeaveOut(c) PROVE Types'
  BY <1>1, <1>5, LeaveOutTypes
<1>6. CASE Delete \/ SyncWork \/ Watch
  BY <1>1, <1>6, DeleteWorkTypes, DeleteObjectTypes, GetObjectTypes, WriteObjectTypes,
     SyncedTypes, WatchTypes DEF Delete, SyncWork
<1>7. CASE Panic \/ Crash
  BY <1>1, <1>7, RestartTypes DEF Panic, Crash
<1>8. CASE UNCHANGED vars
  BY <1>1, <1>8, StutterTypes
<1>9. QED
  BY <1>1, <1>2, <1>3, <1>4, <1>5, <1>6, <1>7, <1>8 DEF Next

-----------------------------------------------------------------------------
(* Objects go before their Workload *)

SeenGrows == \A k \in Keys : seen[k] \in Nat /\ seen'[k] \in Nat /\ seen[k] <= seen'[k]

LEMMA SameSeenGrows == ASSUME Types, UNCHANGED seen PROVE SeenGrows
BY DEF Types, SeenOK, SeenGrows

LEMMA HeldSame == ASSUME NEW k, hist'[k] = hist[k] PROVE Held(k)' <=> Held(k)
BY DEF Held, Exists, Latest

(* Without a new version. *)
LEMMA SafeFrame ==
    ASSUME Inv, NEW k \in Works, hist'[k] = hist[k], SeenGrows,
           Held(k) \/ \A c \in Clusters : Clean(c, k) => Clean(c, k)'
    PROVE  Safe(k)'
<1>1. SUFFICES ASSUME ~Held(k)
               PROVE  /\ \A c \in Clusters : Clean(c, k)'
                      /\ \A i \in 1..Len(hist[k]) : i >= seen'[k] => ~Live(hist[k][i])
  BY HeldSame DEF Safe
<1>2. /\ \A c \in Clusters : Clean(c, k)
      /\ \A i \in 1..Len(hist[k]) : i >= seen[k] => ~Live(hist[k][i])
  BY <1>1 DEF Inv, Safe
<1>3. \A i \in 1..Len(hist[k]) : i >= seen'[k] => i >= seen[k]
  BY KeyFacts DEF SeenGrows
<1>4. QED
  BY <1>1, <1>2, <1>3

(* With one by a user, or by DeleteWork. *)
LEMMA StoredSafe ==
    ASSUME Inv, NEW k \in Keys, NEW v, Stored(k, v), UNCHANGED <<seen, member, kept>>,
           NEW w \in Works
    PROVE  Safe(w)' /\ (Held(w) => Held(w)')
<1>1. /\ \A x \in Keys \ {k} : hist'[x] = hist[x]
      /\ Len(hist[k]) \in Nat /\ Len(hist'[k]) = Len(hist[k]) + 1
      /\ \A i \in 1..Len(hist[k]) : hist'[k][i] = hist[k][i]
      /\ hist'[k][Len(hist'[k])] = v /\ hist'[k] # <<>>
  BY StoreFacts DEF Inv, Types, Stored
<1>2. SeenGrows
  BY SameSeenGrows DEF Inv
<1>3. CASE w # k
  <2>1. hist'[w] = hist[w]
    BY <1>1, <1>3, KeyFacts
  <2>2. \A c : Clean(c, w) => Clean(c, w)'
    BY DEF Clean
  <2>3. QED
    BY <1>2, <2>1, <2>2, SafeFrame, HeldSame
<1>4. CASE w = k /\ v.fin /\ ~v.gone
  <2>1. Held(w)'
    BY <1>1, <1>4 DEF Held, Exists, Latest
  <2>2. QED
    BY <2>1 DEF Safe
<1>5. CASE w = k /\ ~Held(k) /\ ~Live(v)
  <2>1. /\ \A c \in Clusters : Clean(c, w)
        /\ \A i \in 1..Len(hist[k]) : i >= seen[k] => ~Live(hist[k][i])
    BY <1>5 DEF Inv, Safe
  <2>2. ASSUME NEW i \in 1..Len(hist'[k]), i >= seen[k] PROVE ~Live(hist'[k][i])
    <3>1. CASE i \in 1..Len(hist[k])
      BY <1>1, <2>1, <2>2, <3>1
    <3>2. CASE i = Len(hist'[k])
      BY <1>1, <1>5, <3>2
    <3>3. QED
      BY <1>1, <3>1, <3>2
  <2>3. \A c \in Clusters : Clean(c, w)'
    BY <2>1 DEF Clean
  <2>4. QED
    BY <1>5, <2>2, <2>3 DEF Safe
<1>6. QED
  BY <1>3, <1>4, <1>5 DEF Stored

(* WorkReconciler goes on with what it works on. *)
Extends ==
    \A k \in Keys : /\ Len(hist[k]) <= Len(hist'[k])
                    /\ \A i \in 1..Len(hist[k]) : hist'[k][i] = hist[k][i]

LEMMA WorkFrame ==
    ASSUME Inv, job'["work"] = job["work"], active'["work"] = active["work"],
           Extends, SeenGrows,
           \A k \in Works : Held(k) => Held(k)',
           \A c \in Clusters, k \in Works : Clean(c, k) => Clean(c, k)'
    PROVE  WorkOK'
<1> DEFINE k == active["work"]
           j == job["work"]
<1>1. CASE j.pc \in {"idle", "start", "done"}
  BY <1>1 DEF WorkOK
<1>2. CASE j.pc \in {"mark", "delete", "apply", "write"}
  <2>1. /\ k \in Works /\ k \in Keys /\ j.at \in 1..Len(hist[k]) /\ j.at \in Nat
    BY <1>2, BusyFacts, KeyFacts DEF Inv, Jobs
  <2>2. hist'[k][j.at] = hist[k][j.at]
    BY <2>1 DEF Extends
  <2>3. j.at <= seen[k] => j.at <= seen'[k]
    BY <2>1 DEF SeenGrows
  <2>4. \A c \in Clusters : Clean(c, k) => Clean(c, k)'
    BY <2>1
  <2>5. QED
    BY <2>1, <2>2, <2>3, <2>4 DEF Inv, WorkOK, Clean
<1>3. j.pc \in Pcs
  BY KeyFacts DEF Inv, Types, Jobs
<1>4. QED
  BY <1>1, <1>2, <1>3 DEF Pcs

LEMMA SameExtends == ASSUME Inv, UNCHANGED hist PROVE Extends
BY SameGrows DEF Inv, Grows, Extends

LEMMA StoredExtends ==
    ASSUME Inv, NEW k \in Keys, NEW v \in Versions, v.n \in 1..Len(hist[k]) + 1, Store(k, v)
    PROVE  Extends
<1>1. /\ \A x \in Keys \ {k} : hist'[x] = hist[x]
      /\ Len(hist[k]) \in Nat /\ Len(hist'[k]) = Len(hist[k]) + 1
      /\ \A i \in 1..Len(hist[k]) : hist'[k][i] = hist[k][i]
  BY StoreFacts DEF Inv, Types
<1>2. \A x \in Keys : Len(hist[x]) \in Nat
  BY LenProperties DEF Inv, Types, HistOK
<1>3. QED
  BY <1>1, <1>2 DEF Extends

(* Steps that are not WorkReconciler's, without a new version. *)
LEMMA OtherStep ==
    ASSUME Inv, UNCHANGED hist, job'["work"] = job["work"],
           active'["work"] = active["work"], SeenGrows,
           \A c \in Clusters, k \in Works : Clean(c, k) => Clean(c, k)'
    PROVE  WorkOK' /\ \A k \in Works : Safe(k)'
<1>1. WorkOK'
  BY SameExtends, HeldSame, WorkFrame
<1>2. QED
  BY <1>1, SafeFrame

LEMMA StoredStep ==
    ASSUME Inv, NEW k \in Keys, NEW v, Stored(k, v), UNCHANGED <<seen, member, kept>>,
           job'["work"] = job["work"], active'["work"] = active["work"]
    PROVE  WorkOK' /\ \A w \in Works : Safe(w)'
<1>1. \A w \in Works : Safe(w)' /\ (Held(w) => Held(w)')
  BY StoredSafe
<1>2. Extends /\ SeenGrows
  BY StoredExtends, SameSeenGrows DEF Inv, Stored
<1>3. \A c, w : Clean(c, w) => Clean(c, w)'
  BY DEF Clean
<1>4. QED
  BY <1>1, <1>2, <1>3, WorkFrame

(* Steps of WorkReconciler, without a new version. *)
LEMMA WorkSteps ==
    ASSUME Inv, UNCHANGED <<hist, seen>>,
           \A c \in Clusters, k \in Works : Held(k) \/ (Clean(c, k) => Clean(c, k)'),
           job'["work"].pc \in {"apply", "write"} => Held(active'["work"]),
           job'["work"].pc \notin {"mark", "delete"}
    PROVE  WorkOK' /\ \A k \in Works : Safe(k)'
<1>1. \A k \in Works : Safe(k)'
  BY SameSeenGrows, SafeFrame DEF Inv
<1>2. Held(active["work"])' <=> Held(active'["work"])
  BY DEF Held, Exists, Latest
<1>3. QED
  BY <1>1, <1>2 DEF WorkOK

LEMMA SameClean ==
    ASSUME UNCHANGED <<member, kept>> PROVE \A c, k : Clean(c, k) => Clean(c, k)'
BY DEF Clean

-----------------------------------------------------------------------------
LEMMA GetSafe ==
    ASSUME Inv, NEW p \in Procs, Get(p)
    PROVE  WorkOK' /\ \A k \in Works : Safe(k)'
<1>1. /\ UNCHANGED <<hist, seen, active, member, kept>> /\ job[p].pc = "start"
  BY DEF Get, workqueue, history
<1>2. SeenGrows
  BY <1>1, SameSeenGrows DEF Inv
<1>3. CASE p = "policy"
  <2>1. job'["work"] = job["work"]
    BY <1>3, KeyFacts DEF Get, Become, Inv, Types
  <2>2. QED
    BY <1>1, <1>2, <2>1, SameClean, OtherStep
<1>4. CASE p = "work"
  <2> DEFINE k == active["work"]
             v == hist[k][seen[k]]
             here == [NoJob EXCEPT !.at = seen[k]]
  <2>1. k \in Works /\ seen[k] \in 1..Len(hist[k]) /\ seen[k] \in Nat
    BY <1>1, <1>4, BusyFacts, KeyFacts DEF Inv
  <2>2. job'["work"] =
             IF v.gone \/ (v.del /\ ~v.fin) THEN Finish(TRUE)
             ELSE IF v.del THEN [here EXCEPT !.pc = "delete", !.todo = External("work")]
             ELSE IF ~v.fin THEN [here EXCEPT !.pc = "mark"]
             ELSE [here EXCEPT !.pc = "apply", !.todo = Clusters]
    BY <1>4, KeyFacts DEF Get, Become, Inv, Types
  <2>3. \A x \in Works : Safe(x)'
    BY <1>1, <1>2, SameClean, SafeFrame
  <2> HIDE DEF v
  <2>4. CASE v.gone \/ (v.del /\ ~v.fin)
    BY <1>1, <2>2, <2>3, <2>4, FinishIsJob DEF WorkOK
  <2>5. CASE ~v.gone /\ v.del /\ v.fin
    <3>1. job'["work"] = [here EXCEPT !.pc = "delete", !.todo = External("work")]
      BY <2>2, <2>5
    <3>2. External("work") = Clusters
      BY DEF External
    <3>3. /\ job'["work"].pc = "delete" /\ job'["work"].at = seen[k]
          /\ job'["work"].todo = Clusters
      BY <3>1, <3>2 DEF NoJob
    <3>4. QED
      BY <1>1, <2>1, <2>3, <2>5, <3>3 DEF WorkOK, v
  <2>6. CASE ~v.gone /\ ~v.del /\ ~v.fin
    <3>1. job'["work"].pc = "mark" /\ job'["work"].at = seen[k]
      BY <2>2, <2>6 DEF NoJob
    <3>2. QED
      BY <1>1, <2>3, <2>6, <3>1 DEF WorkOK, v
  <2>7. CASE ~v.gone /\ ~v.del /\ v.fin
    <3>1. job'["work"].pc = "apply"
      BY <2>2, <2>7 DEF NoJob
    <3>2. Held(k)
      BY <2>1, <2>7 DEF Inv, Safe, Live, v
    <3>3. Held(active["work"])'
      BY <1>1, <3>2 DEF Held, Exists, Latest
    <3>4. QED
      BY <2>3, <3>1, <3>3 DEF WorkOK
  <2>8. QED
    BY <2>4, <2>5, <2>6, <2>7
<1>5. QED
  BY <1>3, <1>4, KeyFacts

(* The finalizer is written: from now on the Workload is held. *)
LEMMA MarkSafe ==
    ASSUME Inv, NEW p \in Procs, Mark(p)
    PROVE  WorkOK' /\ \A k \in Works : Safe(k)'
<1>0. PICK k : k = active[p]
  OBVIOUS
<1> DEFINE v == [Copy(p) EXCEPT !.fin = TRUE]
           next == Marked(job[p].at + 1)
<1>1. /\ job[p].pc = "mark" /\ Update(p, v, next)
      /\ UNCHANGED <<seen, pending, deferred, active, member, watched, failed, kept>>
  BY DEF Mark, workqueue, history
<1>2. /\ v \in Versions /\ v.n \in 1..Len(hist[k]) + 1 /\ v.fin /\ v.gone = Copy(p).gone
      /\ k \in Keys /\ k \in KeysOf(p) /\ job[p].at \in Nat /\ Len(hist[k]) \in Nat
  <2>1. Len(hist[k]) \in Nat /\ k \in Keys /\ k \in KeysOf(p)
    BY <1>0, <1>1, BusyFacts DEF Inv
  <2>2. Copy(p) \in Versions /\ Copy(p).n \in 1..Len(hist[k]) /\ job[p].at \in Nat
    BY <1>0, <1>1, CopyFacts DEF Inv
  <2>3. v \in Versions /\ v.n = Copy(p).n /\ v.fin /\ v.gone = Copy(p).gone
    BY <2>2 DEF Versions
  <2>4. Copy(p).n \in 1..Len(hist[k]) + 1
    BY <2>1, <2>2
  <2> HIDE DEF v
  <2>5. QED
    BY <2>1, <2>2, <2>3, <2>4
<1>3. SeenGrows
  BY <1>1, SameSeenGrows DEF Inv
<1> HIDE DEF v, next
<1>4. CASE UNCHANGED hist /\ job' = [job EXCEPT ![p] = Finish(FALSE)]
  <2>1. CASE p = "policy"
    BY <1>1, <1>3, <1>4, <2>1, KeyFacts, SameClean, OtherStep DEF Inv, Types
  <2>2. CASE p = "work"
    <3>1. job'["work"].pc = "done"
      BY <1>4, <2>2, KeyFacts, FinishIsJob DEF Inv, Types
    <3>2. QED
      BY <1>1, <1>4, <3>1, SameClean, WorkSteps
  <2>3. QED
    BY <2>1, <2>2, KeyFacts
<1>5. CASE /\ job[p].at = Len(hist[k]) /\ Store(k, v)
           /\ job' = [job EXCEPT ![p] = next] \/ job' = [job EXCEPT ![p] = Finish(FALSE)]
  <2>1. /\ \A x \in Keys \ {k} : hist'[x] = hist[x]
        /\ hist'[k][Len(hist'[k])] = v /\ hist'[k] # <<>>
    BY <1>2, <1>5, StoreFacts DEF Inv, Types
  <2>2. Extends
    BY <1>2, <1>5, StoredExtends
  <2>3. CASE p = "policy"
    <3>1. \A w \in Works : hist'[w] = hist[w]
      BY <1>2, <2>1, <2>3, KeyFacts
    <3>2. job'["work"] = job["work"]
      BY <1>5, <2>3, KeyFacts DEF Inv, Types
    <3>3. QED
      BY <1>1, <1>3, <2>2, <3>1, <3>2, HeldSame, SameClean, WorkFrame, SafeFrame
  <2>4. CASE p = "work"
    <3>1. ~v.gone
      BY <1>0, <1>1, <1>2, <2>4 DEF Inv, WorkOK, Copy
    <3>2. Held(k)'
      BY <1>2, <2>1, <3>1 DEF Held, Exists, Latest
    <3>3. \A w \in Works : Safe(w)'
      <4>1. Safe(k)'
        BY <3>2 DEF Safe
      <4>2. \A w \in Works \ {k} : Safe(w)'
        BY <1>1, <1>3, <2>1, KeyFacts, SameClean, SafeFrame
      <4>3. QED
        BY <4>1, <4>2
    <3>4. job'["work"].pc \in {"apply", "done"}
      <4>1. job'["work"] = next \/ job'["work"] = Finish(FALSE)
        BY <1>5, <2>4, KeyFacts DEF Inv, Types
      <4>2. next.pc = "apply"
        BY <1>2, MarkedIsJob DEF next
      <4>3. QED
        BY <4>1, <4>2, FinishIsJob
    <3>5. Held(active["work"])'
      BY <1>0, <1>1, <2>4, <3>2 DEF Held, Exists, Latest
    <3>6. QED
      BY <3>3, <3>4, <3>5 DEF WorkOK
  <2>5. QED
    BY <2>3, <2>4, KeyFacts
<1>6. QED
  BY <1>0, <1>1, <1>4, <1>5, UpdateFacts DEF Inv

(* The finalizer is taken away: no object is left, and the cache has had   *)
(* the deletion.                                                           *)
LEMMA ReleaseSafe ==
    ASSUME Inv, NEW p \in Procs, Release(p)
    PROVE  WorkOK' /\ \A k \in Works : Safe(k)'
<1>0. PICK k : k = active[p]
  OBVIOUS
<1> DEFINE v == [Copy(p) EXCEPT !.fin = FALSE, !.gone = TRUE]
<1>1. /\ job[p].pc = "delete" /\ job[p].todo = {} /\ Update(p, v, Finish(TRUE))
      /\ UNCHANGED <<seen, pending, deferred, active, member, watched, failed, kept>>
  BY DEF Release, Released, workqueue, history
<1>2. /\ v \in Versions /\ v.n \in 1..Len(hist[k]) + 1 /\ ~v.fin
      /\ k \in Keys /\ k \in KeysOf(p) /\ job[p].at \in Nat /\ Len(hist[k]) \in Nat
  <2>1. Len(hist[k]) \in Nat /\ k \in Keys /\ k \in KeysOf(p)
    BY <1>0, <1>1, BusyFacts DEF Inv
  <2>2. Copy(p) \in Versions /\ Copy(p).n \in 1..Len(hist[k]) /\ job[p].at \in Nat
    BY <1>0, <1>1, CopyFacts DEF Inv
  <2>3. v \in Versions /\ v.n = Copy(p).n /\ ~v.fin
    BY <2>2 DEF Versions
  <2>4. Copy(p).n \in 1..Len(hist[k]) + 1
    BY <2>1, <2>2
  <2> HIDE DEF v
  <2>5. QED
    BY <2>1, <2>2, <2>3, <2>4
<1>3. SeenGrows
  BY <1>1, SameSeenGrows DEF Inv
<1> HIDE DEF v
<1>4. PICK j : job' = [job EXCEPT ![p] = j] /\ j.pc = "done"
  BY <1>1, UpdateFacts, FinishIsJob DEF Inv
<1>5. CASE UNCHANGED hist
  <2>1. CASE p = "policy"
    BY <1>1, <1>3, <1>4, <1>5, <2>1, KeyFacts, SameClean, OtherStep DEF Inv, Types
  <2>2. CASE p = "work"
    <3>1. job'["work"].pc = "done"
      BY <1>4, <2>2, KeyFacts DEF Inv, Types
    <3>2. QED
      BY <1>1, <1>5, <3>1, SameClean, WorkSteps
  <2>3. QED
    BY <2>1, <2>2, KeyFacts
<1>6. CASE job[p].at = Len(hist[k]) /\ Store(k, v)
  <2>1. /\ \A x \in Keys \ {k} : hist'[x] = hist[x]
        /\ Len(hist'[k]) = Len(hist[k]) + 1
        /\ \A i \in 1..Len(hist[k]) : hist'[k][i] = hist[k][i]
        /\ hist'[k][Len(hist'[k])] = v
    BY <1>2, <1>6, StoreFacts DEF Inv, Types
  <2>2. Extends
    BY <1>2, <1>6, StoredExtends
  <2>3. CASE p = "policy"
    <3>1. \A w \in Works : hist'[w] = hist[w]
      BY <1>2, <2>1, <2>3, KeyFacts
    <3>2. job'["work"] = job["work"]
      BY <1>4, <2>3, KeyFacts DEF Inv, Types
    <3>3. QED
      BY <1>1, <1>3, <2>2, <3>1, <3>2, HeldSame, SameClean, WorkFrame, SafeFrame
  <2>4. CASE p = "work"
    <3>1. /\ job[p].at <= seen[k] /\ hist[k][job[p].at].del
          /\ \A c \in Clusters : Clean(c, k)
      BY <1>0, <1>1, <2>4 DEF Inv, WorkOK
    <3>2. ASSUME NEW i \in 1..Len(hist'[k]), i >= seen[k] PROVE ~Live(hist'[k][i])
      <4>1. CASE i = Len(hist'[k])
        BY <1>2, <2>1, <4>1 DEF Live
      <4>2. CASE i \in 1..Len(hist[k])
        <5>1. seen[k] \in Nat
          BY <1>2 DEF SeenGrows, Inv, Types, SeenOK
        <5>2. i = job[p].at
          BY <1>2, <1>6, <3>1, <3>2, <4>2, <5>1
        <5>3. QED
          BY <2>1, <3>1, <4>2, <5>2 DEF Live
      <4>3. QED
        BY <1>2, <2>1, <4>1, <4>2
    <3>3. Safe(k)'
      BY <1>1, <3>1, <3>2, SameClean DEF Safe
    <3>4. \A w \in Works \ {k} : Safe(w)'
      BY <1>1, <1>3, <2>1, KeyFacts, SameClean, SafeFrame
    <3>5. job'["work"].pc = "done"
      BY <1>4, <2>4, KeyFacts DEF Inv, Types
    <3>6. QED
      BY <3>3, <3>4, <3>5 DEF WorkOK
  <2>5. QED
    BY <2>3, <2>4, KeyFacts
<1>7. QED
  BY <1>0, <1>1, <1>5, <1>6, UpdateFacts DEF Inv

LEMMA DeleteWorkSafe ==
    ASSUME Inv, NEW w \in Works, DeleteWork(w)
    PROVE  WorkOK' /\ \A k \in Works : Safe(k)'
<1>1. UNCHANGED <<seen, active, member, kept>> /\ w \in Keys
  BY KeyFacts DEF DeleteWork, workqueue, history
<1>2. job'["work"] = job["work"]
  BY KeyFacts DEF DeleteWork, Become, Inv, Types
<1>3. CASE UNCHANGED hist
  BY <1>1, <1>2, <1>3, SameClean, SameSeenGrows, OtherStep DEF Inv
<1>4. CASE /\ Exists(w)
           /\ Store(w, [Latest(w) EXCEPT !.del = TRUE, !.gone = ~Latest(w).fin])
  BY <1>1, <1>2, <1>4, DeleteStores, StoredStep DEF Inv, Types
<1>5. QED
  BY <1>3, <1>4 DEF DeleteWork

LEMMA RestartSafe ==
    ASSUME Inv, Restarted
    PROVE  WorkOK' /\ \A k \in Works : Safe(k)'
<1>1. /\ seen' = [k \in Keys |-> Len(hist[k])] /\ UNCHANGED <<hist, member, kept>>
      /\ job'["work"].pc = "idle"
  BY KeyFacts DEF Restarted, history, NoJob
<1>2. SeenGrows
  <2>1. \A k \in Keys : Len(hist[k]) \in Nat /\ seen[k] \in Nat /\ seen[k] <= Len(hist[k])
    BY LenProperties DEF Inv, Types, HistOK, SeenOK
  <2>2. QED
    BY <1>1, <2>1 DEF SeenGrows
<1>3. QED
  BY <1>1, <1>2, SameClean, SafeFrame DEF WorkOK

(* An object is deleted, or its deletion has failed. *)
LEMMA DeleteObjectSafe ==
    ASSUME Inv, NEW c \in Clusters, DeleteObject(c)
    PROVE  WorkOK' /\ \A k \in Works : Safe(k)'
<1>0. PICK k : k = active["work"]
  OBVIOUS
<1> DEFINE j == [job["work"] EXCEPT !.todo = @ \ {c}]
<1>1. /\ job["work"].pc = "delete"
      /\ UNCHANGED <<hist, seen, active>>
      /\ job' = [job EXCEPT !["work"] = j]
      /\ \/ /\ member' = [member EXCEPT ![c] = [@ EXCEPT ![k] = None]]
            /\ kept' = kept \ {<<c, k>>}
         \/ member' = member /\ kept' = kept \cup {<<c, k>>}
  BY <1>0 DEF DeleteObject, workqueue
<1>2. k \in Works
  BY <1>0, <1>1, BusyFacts, KeyFacts DEF Inv
<1>3. /\ Clean(c, k)'
      /\ \A d \in Clusters, x \in Works : Clean(d, x) => Clean(d, x)'
  <2>1. CASE /\ member' = [member EXCEPT ![c] = [@ EXCEPT ![k] = None]]
             /\ kept' = kept \ {<<c, k>>}
    <3>1. /\ member'[c][k] = None
          /\ \A d \in Clusters, x \in Works : d # c \/ x # k => member'[d][x] = member[d][x]
      BY <1>2, <2>1 DEF Inv, Types, MemberOK
    <3>2. QED
      BY <2>1, <3>1 DEF Clean
  <2>2. CASE member' = member /\ kept' = kept \cup {<<c, k>>}
    BY <2>2 DEF Clean
  <2>3. QED
    BY <1>1, <2>1, <2>2
<1>4. job'["work"] = j /\ j.pc = "delete" /\ j.at = job["work"].at /\ j.todo = job["work"].todo \ {c}
  BY <1>1, TurnIsJob, KeyFacts DEF Inv, Types
<1> HIDE DEF j
<1>5. WorkOK'
  <2>1. /\ job["work"].at <= seen[k] /\ hist[k][job["work"].at].del
        /\ \A d \in Clusters \ job["work"].todo : Clean(d, k)
    BY <1>0, <1>1 DEF Inv, WorkOK
  <2>2. \A d \in Clusters \ j.todo : Clean(d, k)'
    BY <1>2, <1>3, <1>4, <2>1
  <2>3. active'["work"] = k /\ job'["work"].pc = "delete"
    BY <1>0, <1>1, <1>4
  <2>4. QED
    BY <1>1, <1>4, <2>1, <2>2, <2>3 DEF WorkOK, Clean
<1>6. QED
  BY <1>1, <1>3, <1>5, SafeFrame, SameSeenGrows DEF Inv

LEMMA LeaveOutSafe ==
    ASSUME Inv, NEW c \in Clusters, LeaveOut(c)
    PROVE  WorkOK' /\ \A k \in Works : Safe(k)'
<1>0. PICK k : k = active["work"]
  OBVIOUS
<1> DEFINE j == [job["work"] EXCEPT !.todo = @ \ {c}]
<1>1. /\ UNCHANGED <<hist, seen, active, member>>
      /\ job' = [job EXCEPT !["work"] = j]
      /\ \/ job["work"].pc = "delete" /\ kept' = kept \cup {<<c, k>>}
         \/ job["work"].pc = "apply" /\ kept' = kept
  BY <1>0 DEF LeaveOut, workqueue
<1>2. k \in Works
  BY <1>0, <1>1, BusyFacts, KeyFacts DEF Inv
<1>3. \A d, x : Clean(d, x) => Clean(d, x)'
  BY <1>1 DEF Clean
<1>4. job'["work"] = j /\ j.pc = job["work"].pc /\ j.at = job["work"].at /\ j.todo = job["work"].todo \ {c}
  BY <1>1, TurnIsJob, KeyFacts DEF Inv, Types
<1> HIDE DEF j
<1>5. CASE job["work"].pc = "delete" /\ kept' = kept \cup {<<c, k>>}
  <2>1. /\ job["work"].at <= seen[k] /\ hist[k][job["work"].at].del
        /\ \A d \in Clusters \ job["work"].todo : Clean(d, k)
    BY <1>0, <1>5 DEF Inv, WorkOK
  <2>2. Clean(c, k)'
    BY <1>5 DEF Clean
  <2>3. \A d \in Clusters \ j.todo : Clean(d, k)'
    BY <1>3, <1>4, <2>1, <2>2
  <2>4. active'["work"] = k /\ job'["work"].pc = "delete"
    BY <1>0, <1>1, <1>4, <1>5
  <2>5. WorkOK'
    BY <1>1, <1>4, <2>1, <2>3, <2>4 DEF WorkOK, Clean
  <2>6. QED
    BY <1>1, <1>3, <2>5, SafeFrame, SameSeenGrows DEF Inv
<1>6. CASE job["work"].pc = "apply"
  <2>1. job'["work"].pc = "apply" /\ Held(active'["work"])
    BY <1>1, <1>4, <1>6 DEF Inv, WorkOK
  <2>2. QED
    BY <1>1, <1>3, <2>1, WorkSteps
<1>7. QED
  BY <1>1, <1>5, <1>6

(* Objects are written while their Workload is held. *)
LEMMA GetObjectSafe ==
    ASSUME Inv, NEW c \in Clusters, GetObject(c)
    PROVE  WorkOK' /\ \A k \in Works : Safe(k)'
<1> DEFINE i == [job["work"] EXCEPT !.pc = "write",
                 !.got = [c |-> c, o |-> member[c][active["work"]]]]
<1>1. /\ job["work"].pc = "apply"
      /\ UNCHANGED <<hist, seen, active, member, kept>>
      /\ job' = [job EXCEPT !["work"] = Turn(c)] \/ job' = [job EXCEPT !["work"] = i]
  BY DEF GetObject, Become, workqueue
<1>2. i.pc = "write" /\ Turn(c).pc = "apply"
  BY TurnIsJob, KeyFacts DEF Inv, Types, Jobs
<1> HIDE DEF i
<1>3. job'["work"].pc \in {"apply", "write"}
  BY <1>1, <1>2, KeyFacts DEF Inv, Types
<1>4. Held(active'["work"])
  BY <1>1 DEF Inv, WorkOK
<1>5. QED
  BY <1>1, <1>3, <1>4, SameClean, WorkSteps

LEMMA WriteObjectSafe ==
    ASSUME Inv, WriteObject
    PROVE  WorkOK' /\ \A k \in Works : Safe(k)'
<1>0. PICK k, c : k = active["work"] /\ c = job["work"].got.c
  OBVIOUS
<1>1. /\ job["work"].pc = "write"
      /\ UNCHANGED <<hist, seen, active, kept>>
      /\ job' = [job EXCEPT !["work"] = Turn(c)]
      /\ member' = member \/ \E o : member' = [member EXCEPT ![c][k] = o]
  BY <1>0 DEF WriteObject, Become, workqueue
<1>2. Held(k)
  BY <1>0, <1>1 DEF Inv, WorkOK
<1>3. \A d \in Clusters, x \in Works : Held(x) \/ (Clean(d, x) => Clean(d, x)')
  <2>1. SUFFICES ASSUME NEW d \in Clusters, NEW x \in Works, x # k
                 PROVE  Clean(d, x) => Clean(d, x)'
    BY <1>2
  <2>2. member'[d][x] = member[d][x]
    BY <1>1, <2>1 DEF Inv, Types, MemberOK
  <2>3. QED
    BY <1>1, <2>2 DEF Clean
<1>4. job'["work"].pc = "apply"
  BY <1>1, TurnIsJob, KeyFacts DEF Inv, Types
<1>5. QED
  BY <1>0, <1>1, <1>2, <1>3, <1>4, WorkSteps

(* The rest leaves Workloads and objects as they are, or takes nothing     *)
(* from what WorkReconciler relies on.                                     *)
LEMMA RestSafe ==
    ASSUME Inv,
           \/ \E k \in Keys : Deliver(k) \/ Fire(k) \/ \E p \in Procs : Begin(p, k)
           \/ \E c \in Clusters, k \in Works : Touch(c, k)
           \/ \E p \in Procs : Fail(p) \/ Done(p)
           \/ Synced \/ Watch
           \/ UNCHANGED vars
    PROVE  WorkOK' /\ \A k \in Works : Safe(k)'
<1>1. ASSUME NEW k \in Keys, Deliver(k) PROVE WorkOK' /\ \A w \in Works : Safe(w)'
  <2>1. UNCHANGED <<hist, active, job, member, kept>> /\ seen' = [seen EXCEPT ![k] = @ + 1]
    BY <1>1 DEF Deliver, Q!Request, history
  <2>2. SeenGrows
    BY <2>1 DEF Inv, Types, SeenOK, SeenGrows
  <2>3. QED
    BY <2>1, <2>2, SameClean, OtherStep
<1>2. ASSUME NEW k \in Keys, Fire(k) PROVE WorkOK' /\ \A w \in Works : Safe(w)'
  <2>1. UNCHANGED <<hist, seen, active, job, member, kept>>
    BY <1>2 DEF Fire, Q!Fire, history
  <2>2. QED
    BY <2>1, SameSeenGrows, SameClean, OtherStep DEF Inv
<1>3. ASSUME NEW c \in Clusters, NEW k \in Works, Touch(c, k)
      PROVE  WorkOK' /\ \A w \in Works : Safe(w)'
  <2>1. UNCHANGED <<hist, seen, active, job, kept>> /\ member[c][k] # None
    BY <1>3 DEF Touch, workqueue, history
  <2>2. \A d \in Clusters, x \in Works : Clean(d, x) => Clean(d, x)'
    <3>1. PICK o : member' = [member EXCEPT ![c][k] = o]
      BY <1>3 DEF Touch
    <3>2. \A d \in Clusters, x \in Works : d # c \/ x # k => member'[d][x] = member[d][x]
      BY <3>1 DEF Inv, Types, MemberOK
    <3>3. QED
      BY <2>1, <3>2 DEF Clean
  <2>3. QED
    BY <2>1, <2>2, SameSeenGrows, OtherStep DEF Inv
<1>4. ASSUME NEW p \in Procs,
             (\E k \in Keys : Begin(p, k)) \/ Fail(p) \/ Done(p) \/ (p = "work" /\ Synced)
                \/ (p = "policy" /\ Watch)
      PROVE  WorkOK' /\ \A w \in Works : Safe(w)'
  <2>1. PICK j, a : /\ UNCHANGED <<hist, seen, member, kept>>
                    /\ job' = [job EXCEPT ![p] = j] /\ j.pc \in {"idle", "start", "done"}
                    /\ active' = [active EXCEPT ![p] = a]
    <3>1. CASE \E k \in Keys : Begin(p, k)
      <4>1. PICK k \in Keys : Begin(p, k)
        BY <3>1
      <4>2. /\ UNCHANGED <<hist, seen, member, kept>>
            /\ job' = [job EXCEPT ![p] = [NoJob EXCEPT !.pc = "start"]]
            /\ active' = [active EXCEPT ![p] = k]
        BY <4>1 DEF Begin, Q!Begin, Become, history
      <4>3. [NoJob EXCEPT !.pc = "start"].pc = "start"
        BY DEF NoJob
      <4>4. QED
        BY <4>2, <4>3
    <3>2. CASE Done(p)
      <4>1. /\ UNCHANGED <<hist, seen, member, kept>>
            /\ job' = [job EXCEPT ![p] = NoJob] /\ active' = [active EXCEPT ![p] = None]
        BY <3>2 DEF Done, Q!End, Become, history
      <4>2. NoJob.pc = "idle"
        BY DEF NoJob
      <4>3. QED
        BY <4>1, <4>2
    <3>3. CASE Fail(p) \/ (p = "work" /\ Synced) \/ (p = "policy" /\ Watch)
      <4>1. /\ UNCHANGED <<hist, seen, member, kept, active>>
            /\ job' = [job EXCEPT ![p] = Finish(TRUE)]
        BY <3>3 DEF Fail, Q!Defer, Synced, Watch, Become, workqueue, history
      <4>2. active' = [active EXCEPT ![p] = active[p]]
        BY <4>1 DEF Inv, Types, Queues
      <4>3. QED
        BY <4>1, <4>2, FinishIsJob
    <3>4. QED
      BY <1>4, <3>1, <3>2, <3>3
  <2>2. CASE p = "policy"
    <3>1. job'["work"] = job["work"] /\ active'["work"] = active["work"]
      BY <2>1, <2>2, KeyFacts DEF Inv, Types, Queues
    <3>2. QED
      BY <2>1, <3>1, SameSeenGrows, SameClean, OtherStep DEF Inv
  <2>3. CASE p = "work"
    <3>1. job'["work"] = j
      BY <2>1, <2>3, KeyFacts DEF Inv, Types
    <3>2. QED
      BY <2>1, <3>1, SameClean, WorkSteps
  <2>4. QED
    BY <2>2, <2>3, KeyFacts
<1>5. CASE UNCHANGED vars
  <2>1. UNCHANGED <<hist, seen, active, job, member, kept>>
    BY <1>5 DEF vars, workqueue, history
  <2>2. QED
    BY <2>1, SameSeenGrows, SameClean, OtherStep DEF Inv
<1>6. QED
  BY <1>1, <1>2, <1>3, <1>4, <1>5, KeyFacts

LEMMA InitInv == Init => Inv
<1>1. SUFFICES ASSUME Init PROVE WorkOK /\ \A k \in Works : Safe(k)
  BY InitTypes DEF Inv
<1>2. job["work"].pc = "idle"
  BY <1>1, KeyFacts DEF Init, NoJob
<1>3. ASSUME NEW k \in Works PROVE Safe(k)
  <2>1. Len(hist[k]) = 0 /\ \A c \in Clusters : member[c][k] = None
    BY <1>1, KeyFacts, EmptySeq DEF Init
  <2>2. QED
    BY <2>1 DEF Safe, Clean
<1>4. QED
  BY <1>2, <1>3 DEF WorkOK

LEMMA NextInv == Inv /\ [Next]_vars => Inv'
<1>1. SUFFICES ASSUME Inv, [Next]_vars PROVE WorkOK' /\ \A k \in Works : Safe(k)'
  BY NextTypes DEF Inv
<1>2. ASSUME NEW k \in Keys, User(k) PROVE WorkOK' /\ \A w \in Works : Safe(w)'
  <2>1. UNCHANGED <<seen, active, job, member, kept>>
    BY <1>2 DEF User, workqueue, history
  <2>2. QED
    BY <1>1, <1>2, <2>1, UserStores, StoredStep DEF Inv, Types
<1>3. ASSUME NEW p \in Procs, Get(p) \/ Mark(p) \/ Release(p)
      PROVE  WorkOK' /\ \A w \in Works : Safe(w)'
  BY <1>1, <1>3, GetSafe, MarkSafe, ReleaseSafe
<1>4. CASE Delete
  BY <1>1, <1>4, DeleteWorkSafe, DeleteObjectSafe DEF Delete
<1>5. ASSUME NEW c \in Clusters, LeaveOut(c) \/ GetObject(c)
      PROVE  WorkOK' /\ \A w \in Works : Safe(w)'
  BY <1>1, <1>5, LeaveOutSafe, GetObjectSafe
<1>6. CASE WriteObject
  BY <1>1, <1>6, WriteObjectSafe
<1>7. CASE Panic \/ Crash
  BY <1>1, <1>7, RestartSafe DEF Panic, Crash
<1>8. ASSUME \/ \E k \in Keys : Deliver(k) \/ Fire(k) \/ \E p \in Procs : Begin(p, k)
             \/ \E c \in Clusters, k \in Works : Touch(c, k)
             \/ \E p \in Procs : Fail(p) \/ Done(p)
             \/ Synced \/ Watch
             \/ UNCHANGED vars
      PROVE  WorkOK' /\ \A w \in Works : Safe(w)'
  BY <1>1, <1>8, RestSafe
<1>9. QED
  BY <1>1, <1>2, <1>3, <1>4, <1>5, <1>6, <1>7, <1>8 DEF Next, Reconcile, SyncWork

LEMMA Invariance == Spec => []Inv
BY InitInv, NextInv, PTL DEF Spec

(* Every variable of the two reconcilers holds one of its values. *)
THEOREM TypeCorrect == Spec => []TypeOK
<1>1. Inv => TypeOK
  <2>1. SUFFICES ASSUME Types PROVE TypeOK
    BY DEF Inv
  <2>2. \A k \in Keys : seen[k] \in 0..Len(hist[k])
    BY <2>1, LenProperties DEF Types, SeenOK, HistOK
  <2>3. Q!SFTypeOK
    BY <2>1 DEF Types, Queues, Q!SFTypeOK
  <2>4. QED
    BY <2>1, <2>2, <2>3 DEF TypeOK, Types, JobOK, MemberOK
<1>2. QED
  BY <1>1, Invariance, PTL

(* A Workload is gone only after its objects are, but for those whose      *)
(* deletion failed: for any number of Workloads, clusters, versions that   *)
(* the cache lags, lost or refused updates, and crashes.                   *)
THEOREM ObjectsAlwaysGoFirst == Spec => []ObjectsGoFirst
<1>1. Inv => ObjectsGoFirst
  BY DEF Inv, Safe, Held, Clean, ObjectsGoFirst
<1>2. QED
  BY <1>1, Invariance, PTL

-----------------------------------------------------------------------------
(* What is quiet is applied: the history grows ahead of the cache, the     *)
(* cache ahead of the queue, and WorkReconciler works on the last version  *)
(* or will be called again.                                                *)

Behind(k) == seen[k] < Len(hist[k]) \/ k \in pending \cup deferred

Applied(c, k) ==
    \/ member[c][k] # None /\ member[c][k].n = Latest(k).n
    \/ <<c, k>> \in failed

Standing(k) == Exists(k) /\ ~Latest(k).del

(* WorkReconciler, at work on k, has still to do it, or to fail. *)
Doing(k) ==
    LET j == job["work"]
    IN  /\ active["work"] = k
        /\ \/ j.pc \in {"start", "mark"}
           \/ j.pc = "done" /\ ~j.ok
           \/ /\ j.pc \in {"apply", "write"}
              /\ \A c \in Clusters \ j.todo : Applied(c, k)

AtLast ==
    job["work"].pc \in {"mark", "delete", "apply", "write"} =>
        \/ Behind(active["work"])
        \/ job["work"].at = Len(hist[active["work"]])

Followed(k) ==
    Standing(k) => \/ Behind(k)
                   \/ \A c \in Clusters : Applied(c, k)
                   \/ Doing(k)

QInv == Inv /\ AtLast /\ \A k \in Works : Followed(k)

(* Steps that are not WorkReconciler's. *)
LEMMA AsideFollowed ==
    ASSUME QInv, job'["work"] = job["work"], active'["work"] = active["work"],
           failed' = failed,
           \A x \in Works : Behind(x) => Behind(x)',
           \A x \in Works : hist'[x] = hist[x] \/ Behind(x)',
           \A c \in Clusters, x \in Works :
              \/ member'[c][x] = member[c][x]
              \/ /\ member[c][x] # None /\ member'[c][x] # None
                 /\ member'[c][x].n = member[c][x].n
    PROVE  AtLast' /\ \A x \in Works : Followed(x)'
<1>1. AtLast'
  <2>1. SUFFICES ASSUME job["work"].pc \in {"mark", "delete", "apply", "write"}
                 PROVE  \/ Behind(active["work"])'
                        \/ job["work"].at = Len(hist'[active["work"]])
    BY DEF AtLast
  <2>2. active["work"] \in Works
    BY <2>1, BusyFacts, KeyFacts DEF QInv, Inv
  <2>3. Behind(active["work"]) \/ job["work"].at = Len(hist[active["work"]])
    BY <2>1 DEF QInv, AtLast
  <2>4. PICK k : k = active["work"]
    OBVIOUS
  <2>5. Behind(k)' \/ job["work"].at = Len(hist'[k])
    BY <2>2, <2>3, <2>4
  <2>6. Behind(active["work"])' <=> Behind(k)'
    BY <2>4 DEF Behind
  <2>7. QED
    BY <2>4, <2>5, <2>6
<1>2. ASSUME NEW x \in Works, ~Behind(x)', Standing(x)' PROVE Followed(x)'
  <2>1. hist'[x] = hist[x] /\ ~Behind(x)
    BY <1>2
  <2>2. Standing(x)
    BY <1>2, <2>1 DEF Standing, Exists, Latest
  <2>3. \A c \in Clusters : Applied(c, x) => Applied(c, x)'
    BY <2>1 DEF Applied, Latest
  <2>4. (\A c \in Clusters : Applied(c, x)) \/ Doing(x)
    BY <2>1, <2>2 DEF QInv, Followed
  <2>5. Doing(x) => Doing(x)'
    BY <2>3 DEF Doing
  <2>6. QED
    BY <2>3, <2>4, <2>5 DEF Followed
<1>3. QED
  BY <1>1, <1>2 DEF Followed

(* Steps of WorkReconciler with k. *)
LEMMA WorkFollowed ==
    ASSUME QInv, NEW k \in Works, active["work"] \in {k, None},
           \A x \in Works \ {k} :
              /\ hist'[x] = hist[x]
              /\ Behind(x) => Behind(x)'
              /\ \A c \in Clusters : Applied(c, x) => Applied(c, x)',
           job'["work"].pc \in {"mark", "delete", "apply", "write"} =>
              /\ active'["work"] = k
              /\ Behind(k)' \/ job'["work"].at = Len(hist'[k]),
           Followed(k)'
    PROVE  AtLast' /\ \A x \in Works : Followed(x)'
<1>1. AtLast'
  BY DEF AtLast, Behind
<1>2. ASSUME NEW x \in Works \ {k}, ~Behind(x)', Standing(x)' PROVE Followed(x)'
  <2>1. hist'[x] = hist[x] /\ ~Behind(x)
    BY <1>2
  <2>2. Standing(x)
    BY <1>2, <2>1 DEF Standing, Exists, Latest
  <2>3. ~Doing(x)
    BY KeyFacts DEF Doing
  <2>4. \A c \in Clusters : Applied(c, x)
    BY <2>1, <2>2, <2>3 DEF QInv, Followed
  <2>5. \A c \in Clusters : Applied(c, x)'
    BY <2>4
  <2>6. QED
    BY <2>5 DEF Followed
<1>3. QED
  BY <1>1, <1>2 DEF Followed

LEMMA StoredBehind ==
    ASSUME QInv, NEW k \in Keys, NEW v, v \in Versions, v.n \in 1..Len(hist[k]) + 1,
           Store(k, v), UNCHANGED <<seen, pending, deferred>>
    PROVE  /\ Behind(k)'
           /\ \A x \in Works : Behind(x) => Behind(x)'
           /\ \A x \in Works \ {k} : hist'[x] = hist[x]
<1>1. /\ Len(hist'[k]) = Len(hist[k]) + 1 /\ Len(hist[k]) \in Nat
      /\ \A x \in Keys \ {k} : hist'[x] = hist[x]
  BY StoreFacts DEF QInv, Inv, Types
<1>2. seen[k] \in Nat /\ seen[k] <= Len(hist[k])
  BY DEF QInv, Inv, Types, SeenOK
<1>3. Behind(k)'
  BY <1>1, <1>2 DEF Behind
<1>4. \A x \in Works \ {k} : hist'[x] = hist[x] /\ (Behind(x) => Behind(x)')
  BY <1>1, KeyFacts DEF Behind
<1>5. QED
  BY <1>3, <1>4

(* With no new version, and the queue as it was. *)
LEMMA SameBehind ==
    ASSUME UNCHANGED <<hist, seen, pending, deferred>>
    PROVE  \A x : Behind(x)' <=> Behind(x)
BY DEF Behind

LEMMA SameApplied ==
    ASSUME UNCHANGED <<hist, member, failed>>
    PROVE  \A c, x : Applied(c, x)' <=> Applied(c, x)
BY DEF Applied, Latest

(* What is not WorkReconciler. *)
LEMMA OutsideFollowed ==
    ASSUME QInv,
           \/ \E k \in Keys : User(k) \/ Deliver(k) \/ Fire(k)
           \/ \E c \in Clusters, k \in Works : Touch(c, k)
           \/ UNCHANGED vars
    PROVE  AtLast' /\ \A x \in Works : Followed(x)'
<1>1. ASSUME NEW k \in Keys, User(k) PROVE AtLast' /\ \A x \in Works : Followed(x)'
  <2>1. UNCHANGED <<seen, pending, deferred, active, job, member, failed>>
    BY <1>1 DEF User, workqueue, history
  <2>2. PICK v : v \in Versions /\ v.n \in 1..Len(hist[k]) + 1 /\ Store(k, v)
    BY <1>1, UserStores DEF QInv, Inv, Types, Stored
  <2>3. /\ Behind(k)'
        /\ \A x \in Works : Behind(x) => Behind(x)'
        /\ \A x \in Works \ {k} : hist'[x] = hist[x]
    BY <2>1, <2>2, StoredBehind
  <2>4. QED
    BY <2>1, <2>3, AsideFollowed
<1>2. ASSUME NEW k \in Keys, Deliver(k) PROVE AtLast' /\ \A x \in Works : Followed(x)'
  <2>1. /\ UNCHANGED <<hist, active, job, member, failed, deferred>>
        /\ pending' = pending \cup {k} /\ seen' = [seen EXCEPT ![k] = @ + 1]
    BY <1>2 DEF Deliver, Q!Request, history
  <2>2. \A x \in Works : Behind(x) => Behind(x)'
    BY <2>1, KeyFacts DEF Behind, QInv, Inv, Types, SeenOK
  <2>3. QED
    BY <2>1, <2>2, AsideFollowed
<1>3. ASSUME NEW k \in Keys, Fire(k) PROVE AtLast' /\ \A x \in Works : Followed(x)'
  <2>1. /\ UNCHANGED <<hist, seen, active, job, member, failed>>
        /\ pending \cup deferred \subseteq (pending \cup deferred)'
    BY <1>3 DEF Fire, Q!Fire, history
  <2>2. \A x \in Works : Behind(x) => Behind(x)'
    BY <2>1 DEF Behind
  <2>3. QED
    BY <2>1, <2>2, AsideFollowed
<1>4. ASSUME NEW c \in Clusters, NEW k \in Works, Touch(c, k)
      PROVE  AtLast' /\ \A x \in Works : Followed(x)'
  <2>1. UNCHANGED <<hist, seen, pending, deferred, active, job, failed>>
        /\ member[c][k] # None
    BY <1>4 DEF Touch, workqueue, history
  <2>2. member[c][k] \in Objects
    BY <2>1 DEF QInv, Inv, Types, MemberOK
  <2> DEFINE o == [member[c][k] EXCEPT !.rv = @ + 1]
  <2>3. o \in Objects /\ o.n = member[c][k].n /\ o # None
    BY <2>2, ReconcilerConstants DEF Objects
  <2>4. member' = [member EXCEPT ![c] = [@ EXCEPT ![k] = o]]
    BY <1>4 DEF Touch
  <2> HIDE DEF o
  <2>5. /\ member'[c][k] = o
        /\ \A d \in Clusters, x \in Works : d # c \/ x # k => member'[d][x] = member[d][x]
    BY <2>3, <2>4 DEF QInv, Inv, Types, MemberOK
  <2>6. \A d \in Clusters, x \in Works :
           \/ member'[d][x] = member[d][x]
           \/ /\ member[d][x] # None /\ member'[d][x] # None
              /\ member'[d][x].n = member[d][x].n
    BY <2>1, <2>3, <2>5
  <2>7. QED
    BY <2>1, <2>6, SameBehind, AsideFollowed
<1>5. CASE UNCHANGED vars
  <2>1. UNCHANGED <<hist, seen, pending, deferred, active, job, member, failed>>
    BY <1>5 DEF vars, workqueue, history
  <2>2. QED
    BY <2>1, SameBehind, AsideFollowed
<1>6. QED
  BY <1>1, <1>2, <1>3, <1>4, <1>5

LEMMA PolicyFollowed ==
    ASSUME QInv,
           \/ Get("policy") \/ Mark("policy") \/ Release("policy") \/ Fail("policy")
           \/ Done("policy") \/ Watch \/ \E k \in Keys : Begin("policy", k)
           \/ \E w \in Works : DeleteWork(w)
    PROVE  AtLast' /\ \A x \in Works : Followed(x)'
<1>1. /\ UNCHANGED <<seen, member, failed>>
      /\ job'["work"] = job["work"] /\ active'["work"] = active["work"]
  <2>1. UNCHANGED <<seen, member, failed>>
    BY DEF Get, Mark, Release, Fail, Done, Watch, Begin, DeleteWork, history
  <2>2. \E j : job' = [job EXCEPT !["policy"] = j]
    BY UpdateFacts, KeyFacts DEF Get, Mark, Release, Fail, Done, Watch, Begin, DeleteWork,
                                 Become, QInv, Inv
  <2>3. active' = active \/ \E a : active' = [active EXCEPT !["policy"] = a]
    BY DEF Get, Mark, Release, Fail, Done, Watch, Begin, DeleteWork, workqueue, Q!Defer,
           Q!End, Q!Begin
  <2>4. QED
    BY <2>1, <2>2, <2>3, KeyFacts DEF QInv, Inv, Types, Queues
<1>2. /\ \A x \in Works : hist'[x] = hist[x] \/ Behind(x)'
      /\ \A x \in Works : Behind(x) => Behind(x)'
  <2>1. CASE \E w \in Works : DeleteWork(w)
    <3>1. PICK w \in Works : DeleteWork(w)
      BY <2>1
    <3>2. UNCHANGED <<seen, pending, deferred>> /\ w \in Keys
      BY <3>1, KeyFacts DEF DeleteWork, workqueue
    <3>3. CASE UNCHANGED hist
      BY <3>2, <3>3, SameBehind
    <3>4. CASE /\ Exists(w)
               /\ Store(w, [Latest(w) EXCEPT !.del = TRUE, !.gone = ~Latest(w).fin])
      <4>1. PICK v : v \in Versions /\ v.n \in 1..Len(hist[w]) + 1 /\ Store(w, v)
        BY <3>2, <3>4, DeleteStores DEF QInv, Inv, Types, Stored
      <4>2. QED
        BY <3>2, <4>1, StoredBehind
    <3>5. QED
      BY <3>1, <3>3, <3>4 DEF DeleteWork
  <2>2. CASE ~\E w \in Works : DeleteWork(w)
    <3>1. \A x \in Works : hist'[x] = hist[x]
      <4>1. CASE Mark("policy") \/ Release("policy")
        <5>1. hist' = hist \/ \E v : Store(active["policy"], v)
          BY <4>1, UpdateFacts, KeyFacts DEF Mark, Release, QInv, Inv
        <5>2. active["policy"] \in Policies
          <6>1. job["policy"].pc # "idle"
            BY <4>1 DEF Mark, Release
          <6>2. QED
            BY <6>1, BusyFacts, KeyFacts DEF QInv, Inv
        <5>3. hist \in [Keys -> Seq(Versions)]
          BY DEF QInv, Inv, Types, HistOK
        <5>4. QED
          BY <5>1, <5>2, <5>3, KeyFacts DEF Store
      <4>2. CASE ~(Mark("policy") \/ Release("policy"))
        BY <2>2, <4>2 DEF Get, Fail, Done, Watch, Begin
      <4>3. QED
        BY <4>1, <4>2
    <3>2. /\ \A x \in Works : x \in pending => x \in pending'
          /\ deferred \subseteq deferred'
      <4>1. CASE \E k \in Keys : Begin("policy", k)
        BY <4>1, KeyFacts DEF Begin, Q!Begin
      <4>2. CASE Fail("policy")
        BY <4>2 DEF Fail, Q!Defer
      <4>3. CASE Done("policy")
        BY <4>3 DEF Done, Q!End
      <4>4. CASE Get("policy") \/ Mark("policy") \/ Release("policy") \/ Watch
        BY <4>4 DEF Get, Mark, Release, Watch, workqueue
      <4>5. QED
        BY <2>2, <4>1, <4>2, <4>3, <4>4
    <3>3. \A x \in Works : Behind(x) => Behind(x)'
      BY <1>1, <3>1, <3>2 DEF Behind
    <3>4. QED
      BY <3>1, <3>3
  <2>3. QED
    BY <2>1, <2>2
<1>3. QED
  BY <1>1, <1>2, AsideFollowed

(* WorkReconciler is called, is done, fails, writes its Workload. *)
LEMMA CalledFollowed ==
    ASSUME QInv,
           \/ \E k \in Keys : Begin("work", k)
           \/ Mark("work") \/ Release("work") \/ Fail("work") \/ Done("work")
    PROVE  AtLast' /\ \A x \in Works : Followed(x)'
<1>1. job \in [Procs -> Jobs] /\ active \in [Procs -> Keys \cup {None}] /\ Types /\ Inv
  BY DEF QInv, Inv, Types, Queues
<1>2. ASSUME NEW k \in Keys, Begin("work", k) PROVE AtLast' /\ \A x \in Works : Followed(x)'
  <2>1. /\ k \in Works /\ active["work"] = None
        /\ UNCHANGED <<hist, seen, member, failed, deferred>>
        /\ pending' = pending \ {k} /\ active' = [active EXCEPT !["work"] = k]
        /\ job' = [job EXCEPT !["work"] = [NoJob EXCEPT !.pc = "start"]]
    BY <1>2, KeyFacts DEF Begin, Q!Begin, Become, history
  <2>2. job'["work"].pc = "start" /\ active'["work"] = k
    BY <1>1, <2>1, KeyFacts DEF NoJob
  <2>3. \A x \in Works \ {k} : Behind(x) => Behind(x)'
    BY <2>1 DEF Behind
  <2>4. Followed(k)'
    BY <2>2 DEF Followed, Doing
  <2>5. QED
    BY <2>1, <2>2, <2>3, <2>4, SameApplied, WorkFollowed
<1>3. CASE Mark("work") \/ Release("work")
  <2>1. PICK k : k = active["work"]
    OBVIOUS
  <2>2. /\ job["work"].pc \in {"mark", "delete"}
        /\ UNCHANGED <<seen, pending, deferred, active, member, failed>>
    BY <1>3 DEF Mark, Release, workqueue, history
  <2>3. k \in Works /\ k \in Keys
    BY <1>1, <2>1, <2>2, BusyFacts, KeyFacts
  <2>4. PICK v, next : Update("work", v, next) /\ v \in Versions
                       /\ v.n \in 1..Len(hist[k])
    <3>1. Copy("work") \in Versions /\ Copy("work").n \in 1..Len(hist[k])
      BY <1>1, <2>1, <2>2, CopyFacts, KeyFacts
    <3>2. CASE Mark("work")
      <4> DEFINE u == [Copy("work") EXCEPT !.fin = TRUE]
      <4>1. u \in Versions /\ u.n \in 1..Len(hist[k])
        BY <3>1 DEF Versions
      <4>2. Update("work", u, Marked(job["work"].at + 1))
        BY <3>2 DEF Mark
      <4>3. QED
        BY <4>1, <4>2
    <3>3. CASE Release("work")
      <4> DEFINE u == [Copy("work") EXCEPT !.fin = FALSE, !.gone = TRUE]
      <4>1. u \in Versions /\ u.n \in 1..Len(hist[k])
        BY <3>1 DEF Versions
      <4>2. Update("work", u, Released(job["work"].at + 1))
        BY <3>3 DEF Release
      <4>3. QED
        BY <4>1, <4>2
    <3>4. QED
      BY <1>3, <3>2, <3>3
  <2>5. CASE Store(k, v)
    <3>1. v.n \in 1..Len(hist[k]) + 1
      <4>1. Len(hist[k]) \in Nat
        BY <2>3, <1>1, LenProperties DEF Types, HistOK
      <4>2. QED
        BY <2>4, <4>1
    <3>2. /\ Behind(k)' /\ \A x \in Works : Behind(x) => Behind(x)'
          /\ \A x \in Works \ {k} : hist'[x] = hist[x]
      BY <2>2, <2>3, <2>4, <2>5, <3>1, StoredBehind
    <3>3. \A x \in Works \ {k} : \A c \in Clusters : Applied(c, x) => Applied(c, x)'
      BY <2>2, <3>2 DEF Applied, Latest
    <3>4. Followed(k)'
      BY <3>2 DEF Followed
    <3>5. QED
      BY <2>1, <2>2, <2>3, <3>2, <3>3, <3>4, WorkFollowed
  <2>6. CASE UNCHANGED hist /\ job' = [job EXCEPT !["work"] = Finish(FALSE)]
    <3>1. job'["work"].pc = "done" /\ ~job'["work"].ok
      BY <1>1, <2>6, KeyFacts DEF Finish, NoJob
    <3>2. Followed(k)'
      BY <2>1, <2>2, <3>1 DEF Followed, Doing
    <3>3. QED
      BY <2>1, <2>2, <2>3, <2>6, <3>1, <3>2, SameBehind, SameApplied, WorkFollowed
  <2>7. Store(k, v) \/ (UNCHANGED hist /\ job' = [job EXCEPT !["work"] = Finish(FALSE)])
    BY <1>1, <2>1, <2>4, UpdateFacts, KeyFacts
  <2>8. QED
    BY <2>5, <2>6, <2>7
<1>4. CASE Fail("work") \/ Done("work")
  <2>1. PICK k : k = active["work"]
    OBVIOUS
  <2>2. /\ job["work"].pc = "done" /\ UNCHANGED <<hist, seen, pending, member, failed>>
    BY <1>4 DEF Fail, Done, Q!Defer, Q!End, history
  <2>3. k \in Works /\ k \in Keys
    BY <1>1, <2>1, <2>2, BusyFacts, KeyFacts
  <2>4. CASE Fail("work")
    <3>1. /\ job' = [job EXCEPT !["work"] = Finish(TRUE)]
          /\ deferred' = deferred \cup {k} /\ active' = active
      BY <2>1, <2>4 DEF Fail, Q!Defer, Become
    <3>2. job'["work"].pc = "done"
      BY <1>1, <3>1, KeyFacts DEF Finish, NoJob
    <3>3. Behind(k)' /\ \A x : Behind(x) => Behind(x)'
      BY <2>2, <3>1 DEF Behind
    <3>4. Followed(k)'
      BY <3>3 DEF Followed
    <3>5. QED
      BY <2>1, <2>2, <2>3, <3>1, <3>2, <3>3, <3>4, SameApplied, WorkFollowed
  <2>5. CASE Done("work")
    <3>1. /\ job["work"].ok /\ job' = [job EXCEPT !["work"] = NoJob]
          /\ deferred' = deferred /\ active' = [active EXCEPT !["work"] = None]
      BY <2>5 DEF Done, Q!End, Become
    <3>2. job'["work"].pc = "idle" /\ active'["work"] = None
      BY <1>1, <3>1, KeyFacts DEF NoJob
    <3>3. Followed(k)'
      <4>1. SUFFICES ASSUME Standing(k)', ~Behind(k)' PROVE \A c \in Clusters : Applied(c, k)'
        BY DEF Followed
      <4>2. Standing(k) /\ ~Behind(k)
        BY <2>2, <3>1, <4>1 DEF Standing, Exists, Latest, Behind
      <4>3. ~Doing(k)
        BY <2>2, <3>1 DEF Doing
      <4>4. \A c \in Clusters : Applied(c, k)
        BY <2>3, <4>2, <4>3 DEF QInv, Followed
      <4>5. QED
        BY <2>2, <4>4, SameApplied
    <3>4. QED
      BY <2>1, <2>2, <2>3, <3>1, <3>2, <3>3, SameBehind, SameApplied, WorkFollowed
  <2>6. QED
    BY <1>4, <2>4, <2>5
<1>5. QED
  BY <1>2, <1>3, <1>4

LEMMA GetFollowed == ASSUME QInv, Get("work") PROVE AtLast' /\ \A x \in Works : Followed(x)'
<1> DEFINE here == [NoJob EXCEPT !.at = seen[active["work"]]]
<1>0. PICK k, v : k = active["work"] /\ v = hist[k][seen[k]]
  OBVIOUS
<1>1. /\ job["work"].pc = "start"
      /\ UNCHANGED <<hist, seen, pending, deferred, active, member, failed>>
  BY DEF Get, workqueue, history
<1>2. k \in Works /\ seen[k] \in 1..Len(hist[k]) /\ Len(hist[k]) \in Nat
  BY <1>0, <1>1, BusyFacts, KeyFacts DEF QInv, Inv
<1>3. job'["work"] =
           IF v.gone \/ (v.del /\ ~v.fin) THEN Finish(TRUE)
           ELSE IF v.del THEN [here EXCEPT !.pc = "delete", !.todo = External("work")]
           ELSE IF ~v.fin THEN [here EXCEPT !.pc = "mark"]
           ELSE [here EXCEPT !.pc = "apply", !.todo = Clusters]
  BY <1>0, KeyFacts DEF Get, Become, QInv, Inv, Types
<1>4. Behind(k)' \/ seen[k] = Len(hist'[k])
  BY <1>1, <1>2 DEF Behind
<1>5. /\ job'["work"].pc \in {"mark", "delete", "apply", "write"} =>
            job'["work"].at = seen[k]
      /\ Followed(k)'
  <2>1. CASE v.gone \/ (v.del /\ ~v.fin)
    <3>1. job'["work"].pc = "done"
      BY <1>3, <2>1 DEF Finish, NoJob
    <3>2. seen[k] = Len(hist'[k]) => ~Standing(k)'
      BY <1>0, <1>1, <2>1 DEF Standing, Exists, Latest
    <3>3. QED
      BY <1>4, <3>1, <3>2 DEF Followed
  <2>2. CASE ~v.gone /\ v.del /\ v.fin
    <3>1. job'["work"].pc = "delete" /\ job'["work"].at = seen[k]
      <4>1. PICK h, d : h = here /\ d = External("work")
        OBVIOUS
      <4>2. job'["work"] = [h EXCEPT !.pc = "delete", !.todo = d]
        BY <1>3, <2>2, <4>1
      <4>3. h = [NoJob EXCEPT !.at = seen[k]]
        BY <1>0, <4>1
      <4>4. QED
        BY <4>2, <4>3 DEF NoJob
    <3>2. seen[k] = Len(hist'[k]) => ~Standing(k)'
      BY <1>0, <1>1, <2>2 DEF Standing, Exists, Latest
    <3>3. QED
      BY <1>4, <3>1, <3>2 DEF Followed
  <2>3. CASE ~v.gone /\ ~v.del /\ ~v.fin
    <3>1. job'["work"].pc = "mark" /\ job'["work"].at = seen[k]
      BY <1>0, <1>3, <2>3 DEF NoJob
    <3>2. Doing(k)'
      BY <1>0, <1>1, <3>1 DEF Doing
    <3>3. QED
      BY <3>1, <3>2 DEF Followed
  <2>4. CASE ~v.gone /\ ~v.del /\ v.fin
    <3>0. job'["work"] = [here EXCEPT !.pc = "apply", !.todo = Clusters]
      BY <1>3, <2>4
    <3>1. /\ job'["work"].pc = "apply" /\ job'["work"].at = seen[k]
          /\ job'["work"].todo = Clusters
      BY ONLY <1>0, <3>0 DEF NoJob
    <3>2. Doing(k)'
      BY <1>0, <1>1, <3>1 DEF Doing
    <3>3. QED
      BY <3>1, <3>2 DEF Followed
  <2>5. QED
    BY <2>1, <2>2, <2>3, <2>4
<1> HIDE DEF here
<1>6. QED
  BY <1>0, <1>1, <1>2, <1>4, <1>5, SameBehind, SameApplied, WorkFollowed

(* What an object was before one cluster is dealt with. *)
LEMMA StepFollowed ==
    ASSUME QInv, NEW k \in Works, active["work"] = k, NEW c \in Clusters,
           job["work"].pc \in {"delete", "apply", "write"},
           job'["work"].pc \in {"delete", "apply", "write"},
           job["work"].pc = "delete" <=> job'["work"].pc = "delete",
           job'["work"].at = job["work"].at,
           job["work"].todo \ {c} \subseteq job'["work"].todo,
           UNCHANGED <<hist, seen, pending, deferred, active>>,
           \A d \in Clusters, x \in Works :
              d # c \/ x # k => (Applied(d, x) => Applied(d, x)'),
           /\ job'["work"].pc # "delete"
           /\ job["work"].at = Len(hist[k])
           => \/ Applied(c, k)'
              \/ /\ c \in job'["work"].todo
                 /\ Applied(c, k) => Applied(c, k)'
    PROVE  AtLast' /\ \A x \in Works : Followed(x)'
<1>1. Behind(k) \/ job["work"].at = Len(hist[k])
  BY DEF QInv, AtLast
<1>2. Followed(k)'
  <2>1. SUFFICES ASSUME ~Behind(k), Standing(k) PROVE Doing(k)'
    BY SameBehind DEF Followed, Standing, Exists, Latest
  <2>2. job["work"].at = Len(hist[k])
    BY <1>1, <2>1
  <2>3. job["work"].pc # "delete"
    <3>1. job["work"].pc = "delete" => Latest(k).del
      BY <2>2 DEF QInv, Inv, WorkOK, Latest
    <3>2. QED
      BY <2>1, <3>1 DEF Standing
  <2>4. (\A d \in Clusters : Applied(d, k)) \/ Doing(k)
    BY <2>1 DEF QInv, Followed
  <2>5. \A d \in Clusters \ job["work"].todo : Applied(d, k)
    BY <2>3, <2>4 DEF Doing
  <2>6. ASSUME NEW d \in Clusters \ job'["work"].todo PROVE Applied(d, k)'
    <3>1. CASE d = c
      BY <2>2, <2>3, <2>6, <3>1
    <3>2. CASE d # c
      BY <2>5, <2>6, <3>2
    <3>3. QED
      BY <3>1, <3>2
  <2>7. QED
    BY <2>3, <2>6 DEF Doing
<1>3. \A x \in Works \ {k} :
         /\ hist'[x] = hist[x] /\ (Behind(x) => Behind(x)')
         /\ \A d \in Clusters : Applied(d, x) => Applied(d, x)'
  BY SameBehind
<1>4. Behind(k)' \/ job'["work"].at = Len(hist'[k])
  BY <1>1, SameBehind
<1>5. QED
  BY <1>2, <1>3, <1>4, WorkFollowed

LEMMA DeleteObjectFollowed ==
    ASSUME QInv, NEW c \in Clusters, DeleteObject(c)
    PROVE  AtLast' /\ \A x \in Works : Followed(x)'
<1>0. PICK k : k = active["work"]
  OBVIOUS
<1> DEFINE j == [job["work"] EXCEPT !.todo = @ \ {c}]
<1>1. /\ job["work"].pc = "delete"
      /\ UNCHANGED <<hist, seen, pending, deferred, active, failed>>
      /\ job' = [job EXCEPT !["work"] = j]
      /\ member' = [member EXCEPT ![c] = [@ EXCEPT ![k] = None]] \/ member' = member
  BY <1>0 DEF DeleteObject, workqueue
<1>2. k \in Works
  BY <1>0, <1>1, BusyFacts, KeyFacts DEF QInv, Inv
<1>3. /\ job'["work"] = j /\ j.pc = "delete" /\ j.at = job["work"].at
      /\ j.todo = job["work"].todo \ {c}
  BY <1>1, TurnIsJob, KeyFacts DEF QInv, Inv, Types
<1> HIDE DEF j
<1>4. \A d \in Clusters, x \in Works : d # c \/ x # k => (Applied(d, x) => Applied(d, x)')
  <2>1. \A d \in Clusters, x \in Works : d # c \/ x # k => member'[d][x] = member[d][x]
    BY <1>1, <1>2 DEF QInv, Inv, Types, MemberOK
  <2>2. QED
    BY <1>1, <2>1 DEF Applied, Latest
<1>5. QED
  BY <1>0, <1>1, <1>2, <1>3, <1>4, StepFollowed

LEMMA LeaveOutFollowed ==
    ASSUME QInv, NEW c \in Clusters, LeaveOut(c)
    PROVE  AtLast' /\ \A x \in Works : Followed(x)'
<1>0. PICK k : k = active["work"]
  OBVIOUS
<1> DEFINE j == [job["work"] EXCEPT !.todo = @ \ {c}]
<1>1. /\ UNCHANGED <<hist, seen, pending, deferred, active, member>>
      /\ job' = [job EXCEPT !["work"] = j]
      /\ \/ job["work"].pc = "delete" /\ failed' = failed
         \/ job["work"].pc = "apply" /\ failed' = failed \cup {<<c, k>>}
  BY <1>0 DEF LeaveOut, workqueue
<1>2. k \in Works
  BY <1>0, <1>1, BusyFacts, KeyFacts DEF QInv, Inv
<1>3. /\ job'["work"] = j /\ j.pc = job["work"].pc /\ j.at = job["work"].at
      /\ j.todo = job["work"].todo \ {c}
  BY <1>1, TurnIsJob, KeyFacts DEF QInv, Inv, Types
<1> HIDE DEF j
<1>4. /\ \A d \in Clusters, x \in Works : Applied(d, x) => Applied(d, x)'
      /\ job["work"].pc = "apply" => Applied(c, k)'
  BY <1>1 DEF Applied, Latest
<1>5. QED
  BY <1>0, <1>1, <1>2, <1>3, <1>4, StepFollowed

LEMMA GetObjectFollowed ==
    ASSUME QInv, NEW c \in Clusters, GetObject(c)
    PROVE  AtLast' /\ \A x \in Works : Followed(x)'
<1>0. PICK k, o : k = active["work"] /\ o = member[c][k]
  OBVIOUS
<1> DEFINE i == [job["work"] EXCEPT !.pc = "write", !.got = [c |-> c, o |-> o]]
           same == o # None /\ o.n = hist[k][job["work"].at].n
<1>1. /\ job["work"].pc = "apply"
      /\ UNCHANGED <<hist, seen, pending, deferred, active, member>>
      /\ \/ /\ same /\ failed' = failed \ {<<c, k>>}
            /\ job' = [job EXCEPT !["work"] = Turn(c)]
         \/ failed' = failed /\ job' = [job EXCEPT !["work"] = i]
         \/ /\ failed' = failed \cup {<<c, k>>}
            /\ job' = [job EXCEPT !["work"] = Turn(c)]
  BY <1>0 DEF GetObject, Become, workqueue
<1>2. k \in Works /\ c \in job["work"].todo
  BY <1>0, <1>1, BusyFacts, KeyFacts DEF QInv, Inv, GetObject
<1>3. /\ Turn(c).pc = "apply" /\ Turn(c).at = job["work"].at
      /\ Turn(c).todo = job["work"].todo \ {c}
      /\ i.pc = "write" /\ i.at = job["work"].at /\ i.todo = job["work"].todo
  <2>1. job["work"] \in Jobs
    BY KeyFacts DEF QInv, Inv, Types
  <2>2. QED
    BY <2>1 DEF Turn, Jobs
<1> HIDE DEF i
<1>4. /\ job'["work"] = Turn(c) \/ job'["work"] = i
      /\ job'["work"] = Turn(c) => failed' = failed \cup {<<c, k>>}
                                   \/ (same /\ failed' = failed \ {<<c, k>>})
      /\ job'["work"] = i => failed' = failed
  <2>1. Turn(c) # i
    BY <1>3
  <2>2. QED
    BY <1>1, <2>1, KeyFacts DEF QInv, Inv, Types
<1>5. \A d \in Clusters, x \in Works : d # c \/ x # k => (Applied(d, x) => Applied(d, x)')
  BY <1>1 DEF Applied, Latest
<1>6. job["work"].at = Len(hist[k]) =>
         Applied(c, k)' \/ (job'["work"] = i /\ (Applied(c, k) => Applied(c, k)'))
  <2>1. CASE job'["work"] = i
    BY <1>1, <1>4, <2>1 DEF Applied, Latest
  <2>2. CASE failed' = failed \cup {<<c, k>>}
    BY <2>2 DEF Applied
  <2>3. CASE same
    BY <1>0, <1>1, <2>3 DEF Applied, Latest
  <2>4. QED
    BY <1>4, <2>1, <2>2, <2>3
<1> HIDE DEF same
<1>7. QED
  BY <1>0, <1>1, <1>2, <1>3, <1>4, <1>5, <1>6, StepFollowed

LEMMA WriteObjectFollowed ==
    ASSUME QInv, WriteObject
    PROVE  AtLast' /\ \A x \in Works : Followed(x)'
<1>0. PICK k, c, o : k = active["work"] /\ c = job["work"].got.c /\ o = member[c][k]
  OBVIOUS
<1> DEFINE sent == [n |-> hist[k][job["work"].at].n,
                    rv |-> IF o = None THEN 1 ELSE o.rv + 1]
<1>1. /\ job["work"].pc = "write"
      /\ UNCHANGED <<hist, seen, pending, deferred, active>>
      /\ job' = [job EXCEPT !["work"] = Turn(c)]
      /\ \/ failed' = failed \ {<<c, k>>}
            /\ member' = [member EXCEPT ![c] = [@ EXCEPT ![k] = sent]]
         \/ /\ failed' = failed \cup {<<c, k>>}
            /\ member' = member \/ member' = [member EXCEPT ![c] = [@ EXCEPT ![k] = sent]]
  BY <1>0 DEF WriteObject, Become, workqueue
<1>2. k \in Works /\ c \in Clusters /\ job["work"].at \in 1..Len(hist[k])
  <2>1. k \in Works /\ job["work"].at \in 1..Len(hist[k])
    BY <1>0, <1>1, BusyFacts, KeyFacts DEF QInv, Inv
  <2>2. job["work"].got \in Gots
    BY <1>1, KeyFacts DEF QInv, Inv, Types, JobOK
  <2>3. QED
    BY <1>0, <2>1, <2>2 DEF Gots
<1>3. /\ job'["work"] = Turn(c) /\ Turn(c).pc = "apply" /\ Turn(c).at = job["work"].at
      /\ Turn(c).todo = job["work"].todo \ {c}
  <2>1. job["work"] \in Jobs
    BY KeyFacts DEF QInv, Inv, Types
  <2>2. Turn(c).pc = "apply" /\ Turn(c).at = job["work"].at
        /\ Turn(c).todo = job["work"].todo \ {c}
    BY <2>1 DEF Turn, Jobs
  <2>3. QED
    BY <1>1, <2>2, KeyFacts DEF QInv, Inv, Types
<1>4. sent # None /\ sent.n = hist[k][job["work"].at].n
  <2>1. o = None \/ o \in Objects
    BY <1>0, <1>2 DEF QInv, Inv, Types, MemberOK
  <2>2. hist[k][job["work"].at].n \in Nat
    BY <1>2, KeyFacts DEF QInv, Inv, Types, HistOK
  <2>3. sent \in Objects
    BY <2>1, <2>2 DEF Objects
  <2>4. QED
    BY <2>3, ReconcilerConstants DEF Objects
<1> HIDE DEF sent
<1>5. \A d \in Clusters, x \in Works : d # c \/ x # k => (Applied(d, x) => Applied(d, x)')
  <2>1. \A d \in Clusters, x \in Works : d # c \/ x # k => member'[d][x] = member[d][x]
    BY <1>1, <1>2 DEF QInv, Inv, Types, MemberOK
  <2>2. QED
    BY <1>1, <2>1 DEF Applied, Latest
<1>6. job["work"].at = Len(hist[k]) => Applied(c, k)'
  <2>1. CASE failed' = failed \cup {<<c, k>>}
    BY <2>1 DEF Applied
  <2>2. CASE member' = [member EXCEPT ![c] = [@ EXCEPT ![k] = sent]]
    <3>1. member'[c][k] = sent
      BY <1>2, <2>2 DEF QInv, Inv, Types, MemberOK
    <3>2. QED
      BY <1>1, <1>4, <3>1 DEF Applied, Latest
  <2>3. QED
    BY <1>1, <2>1, <2>2
<1>7. /\ job["work"].pc \in {"delete", "apply", "write"}
      /\ job'["work"].pc \in {"delete", "apply", "write"}
      /\ job["work"].pc = "delete" <=> job'["work"].pc = "delete"
      /\ job'["work"].at = job["work"].at
      /\ job["work"].todo \ {c} \subseteq job'["work"].todo
      /\ active["work"] = k
  BY <1>0, <1>1, <1>3
<1>8. QED
  BY <1>1, <1>2, <1>5, <1>6, <1>7, StepFollowed

LEMMA SyncedFollowed == ASSUME QInv, Synced PROVE AtLast' /\ \A x \in Works : Followed(x)'
<1>0. PICK k : k = active["work"]
  OBVIOUS
<1>1. /\ job["work"].pc = "apply" /\ job["work"].todo = {}
      /\ UNCHANGED <<hist, seen, pending, deferred, active, member, failed>>
      /\ job' = [job EXCEPT !["work"] = Finish(TRUE)]
  BY DEF Synced, Become, workqueue, history
<1>2. k \in Works
  BY <1>0, <1>1, BusyFacts, KeyFacts DEF QInv, Inv
<1>3. job'["work"].pc = "done"
  BY <1>1, KeyFacts DEF Finish, NoJob, QInv, Inv, Types
<1>4. Followed(k)'
  <2>1. SUFFICES ASSUME ~Behind(k), Standing(k) PROVE \A c \in Clusters : Applied(c, k)'
    BY <1>1, SameBehind DEF Followed, Standing, Exists, Latest
  <2>2. (\A c \in Clusters : Applied(c, k)) \/ Doing(k)
    BY <1>2, <2>1 DEF QInv, Followed
  <2>3. \A c \in Clusters : Applied(c, k)
    BY <1>1, <2>2 DEF Doing
  <2>4. QED
    BY <1>1, <2>3, SameApplied
<1>5. QED
  BY <1>0, <1>1, <1>2, <1>3, <1>4, SameBehind, SameApplied, WorkFollowed

LEMMA RestartFollowed == ASSUME QInv, Restarted PROVE AtLast' /\ \A x \in Works : Followed(x)'
<1>1. /\ job'["work"].pc = "idle" /\ hist' = hist /\ pending' = {k \in Keys : Exists(k)}
  BY KeyFacts DEF Restarted, NoJob
<1>2. ASSUME NEW x \in Works, Standing(x)' PROVE Behind(x)'
  <2>1. Exists(x)
    BY <1>1, <1>2 DEF Standing, Exists, Latest
  <2>2. QED
    BY <1>1, <2>1, KeyFacts DEF Behind
<1>3. QED
  BY <1>1, <1>2 DEF AtLast, Followed

LEMMA NextFollowed == QInv /\ [Next]_vars => QInv'
<1>1. SUFFICES ASSUME QInv, [Next]_vars PROVE AtLast' /\ \A x \in Works : Followed(x)'
  BY NextInv DEF QInv
<1>2. ASSUME NEW p \in Procs, NEW k \in Keys, Begin(p, k)
      PROVE  AtLast' /\ \A x \in Works : Followed(x)'
  BY <1>1, <1>2, PolicyFollowed, CalledFollowed, KeyFacts
<1>3. ASSUME NEW p \in Procs, Reconcile(p) PROVE AtLast' /\ \A x \in Works : Followed(x)'
  BY <1>1, <1>3, PolicyFollowed, GetFollowed, CalledFollowed, KeyFacts DEF Reconcile
<1>4. CASE Delete \/ Watch
  BY <1>1, <1>4, PolicyFollowed, DeleteObjectFollowed DEF Delete
<1>5. CASE SyncWork
  BY <1>1, <1>5, GetObjectFollowed, WriteObjectFollowed, SyncedFollowed DEF SyncWork
<1>6. ASSUME NEW c \in Clusters, LeaveOut(c) PROVE AtLast' /\ \A x \in Works : Followed(x)'
  BY <1>1, <1>6, LeaveOutFollowed
<1>7. CASE Panic \/ Crash
  BY <1>1, <1>7, RestartFollowed DEF Panic, Crash
<1>8. CASE \/ \E k \in Keys : User(k) \/ Deliver(k) \/ Fire(k)
           \/ \E c \in Clusters, k \in Works : Touch(c, k)
           \/ UNCHANGED vars
  BY <1>1, <1>8, OutsideFollowed
<1>9. QED
  BY <1>1, <1>2, <1>3, <1>4, <1>5, <1>6, <1>7, <1>8 DEF Next

(* When the cache, the queues and the workers have nothing left to do for  *)
(* a Workload that is not being deleted, each cluster has what the last    *)
(* edit says, unless the last request to it failed or was dropped: for any *)
(* number of Workloads, clusters and edits, however far the cache lags,    *)
(* and wherever the process ends.                                          *)
THEOREM QuietIsApplied == Spec => []QuietMeansApplied
<1>1. Init => QInv
  <2>1. SUFFICES ASSUME Init PROVE AtLast /\ \A x \in Works : Followed(x)
    BY InitInv DEF QInv
  <2>2. job["work"].pc = "idle" /\ \A x \in Works : ~Exists(x)
    BY <2>1, KeyFacts DEF Init, NoJob, Exists
  <2>3. QED
    BY <2>2 DEF AtLast, Followed, Standing
<1>2. QInv => QuietMeansApplied
  <2>1. SUFFICES ASSUME QInv, NEW k \in Works, Exists(k), ~Latest(k).del, Quiet(k)
                 PROVE  \A c \in Clusters : Applied(c, k)
    BY DEF QuietMeansApplied, Applied
  <2>2. seen[k] = Len(hist[k]) /\ Len(hist[k]) \in Nat
    BY <2>1, KeyFacts, LenProperties DEF Quiet, QInv, Inv, Types, HistOK
  <2>3. ~Behind(k)
    BY <2>1, <2>2 DEF Quiet, Behind
  <2>4. ~Doing(k)
    BY <2>1, KeyFacts DEF Quiet, Doing
  <2>5. QED
    BY <2>1, <2>3, <2>4 DEF QInv, Followed, Standing
<1>3. QED
  BY <1>1, <1>2, NextFollowed, PTL DEF Spec
=============================================================================
