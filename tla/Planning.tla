------------------------------ MODULE Planning ------------------------------
(***************************************************************************)
(* One call of generateWorks on an RD, and one of the function it          *)
(* replaced, with the clusters, labels and resources there may be.         *)
(***************************************************************************)
EXTENDS LegacyPlan

CONSTANTS
    Rds,         \* the RDs to plan for
    Labellings,  \* the Cluster objects and their labels
    Hosts        \* the resources in the host cluster, in listed order

(* What the API server admits as an RD; a Cluster object names a member    *)
(* cluster; a resource is listed once.                                     *)
ASSUME PlanningConstants ==
    /\ \A r \in Rds :
          /\ r.placement \in Affinities \cup {None}
          /\ Len(r.rules) \in Nat
          /\ \A k \in 1..Len(r.rules) : IsRule(r.rules[k])
    /\ \A l \in Labellings : DOMAIN l \subseteq Clusters
    /\ Hosts \subseteq Seq(Manifests)
    /\ \A h \in Hosts : \A i, j \in 1..Len(h) : h[i].obj = h[j].obj => i = j

VARIABLES
    rd, lab, host,  \* what generateWorks reads
    works,          \* what it returned
    legacy          \* what its predecessor returned

vars == <<rd, lab, host, works, legacy>>

Outcomes == {"none", "works", "error", "panic"}

Init ==
    /\ rd \in Rds
    /\ lab \in Labellings
    /\ host \in Hosts
    /\ works = [is |-> "none", list |-> <<>>]
    /\ legacy = [is |-> "none", list |-> <<>>]

Templates == Fetched(rd.selector, host)

(* Mutant of Generate: the target of a rule is followed without a look,    *)
(* though it may be nil.                                                   *)
GeneratePanics ==
    /\ works.is = "none"
    /\ works' = IF ~Fetches(rd.selector, host) THEN [is |-> "error", list |-> <<>>]
                ELSE IF LegacyPanics(rd, Templates) THEN [is |-> "panic", list |-> <<>>]
                ELSE IF Succeeds(rd, Templates)
                THEN [is |-> "works", list |-> GenerateWorks(rd, lab, Templates)]
                ELSE [is |-> "error", list |-> <<>>]
    /\ UNCHANGED <<rd, lab, host, legacy>>

Generate ==
    /\ works.is = "none"
    /\ works' = IF Fetches(rd.selector, host) /\ Succeeds(rd, Templates)
                THEN [is |-> "works", list |-> GenerateWorks(rd, lab, Templates)]
                ELSE [is |-> "error", list |-> <<>>]
    /\ UNCHANGED <<rd, lab, host, legacy>>

GenerateLegacy ==
    LET templates == LegacyFetched(rd.selector, host)
    IN  /\ legacy.is = "none"
        /\ legacy' =
             IF ~Fetches(rd.selector, host) THEN [is |-> "error", list |-> <<>>]
             ELSE IF LegacyPanics(rd, templates) THEN [is |-> "panic", list |-> <<>>]
             ELSE IF Succeeds(rd, templates)
             THEN [is |-> "works", list |-> LegacyWorks(rd, lab, templates)]
             ELSE [is |-> "error", list |-> <<>>]
        /\ UNCHANGED <<rd, lab, host, works>>

Next == Generate \/ GenerateLegacy

Spec == Init /\ [][Next]_vars

-----------------------------------------------------------------------------
(* Properties *)

(* The input is one the API server admits, the outcome a list of Workloads *)
(* or one of the ways to fail.                                             *)
TypeOK ==
    /\ rd.placement \in Affinities \cup {None}
    /\ \A k \in 1..Len(rd.rules) : IsRule(rd.rules[k])
    /\ \A i \in 1..Len(host) : host[i] \in Manifests
    /\ works.is \in Outcomes \ {"panic"}
    /\ legacy.is \in Outcomes
    /\ \A w \in {works, legacy} : \A i \in 1..Len(w.list) :
          /\ w.list[i].clusters \subseteq Clusters
          /\ w.list[i].manifests \in Seq(Manifests)

(* What the Workloads generateWorks returns give a cluster that has none   *)
(* of the objects yet: those outside the placement nothing, also if a rule *)
(* names them; those no rule targets the resource as it is; all others the *)
(* resource as rule 1 changes it, whichever rules target them.  arrObj     *)
(* still holds what the rules before made, and the first manifest of an    *)
(* object prevails: what the RD asks for (Asked) is had only where no rule *)
(* or rule 1 alone targets the cluster.                                    *)
WorksGiveFirstRule ==
    works.is = "works" =>
        \A c \in Clusters, o \in Objs :
            Given(works.list, c, o) = AskedOfFirst(rd, lab, Templates, c, o)

(* Where the older generateWorks returns Workloads, they give a placed     *)
(* cluster, applied as WorkReconciler did, what the RD asks for, although  *)
(* arrObj piles up there too; but its last Workload competes, which is for *)
(* all placed clusters and has the unchanged object.                       *)
LegacyGivesMore ==
    legacy.is = "works" =>
        \A c \in Placed(rd, lab), o \in Objs :
            LET asked == Asked(rd, lab, Templates, c, o)
                old == LegacyGiven(legacy.list, c, o)
            IN  /\ asked \subseteq old
                /\ old \ asked \subseteq Bodied(Templates, o)
=============================================================================
