----------------------------- MODULE LegacyPlan -----------------------------
(***************************************************************************)
(* generateWorks of the controller-runtime Reconciler that                 *)
(* DistributionController replaced (resource_distribution_reconciler.go    *)
(* 193-424).  It is compiled, its set-up in cmd/serve is commented out.    *)
(***************************************************************************)
EXTENDS WorkPlan

(* What both versions of the file have word for word. *)
LegacyFetched(selector, host) == Fetched(selector, host)
LegacyMatching(selector, lab) == Matching(selector, lab)
LegacyPlaced(rd, lab) ==
    IF rd.placement = None THEN {}
    ELSE rd.placement.names \cup LegacyMatching(rd.placement.selector, lab)
LegacyPatched(templates, ops) == Patched(templates, ops)

(* createWork.  The name of the policy is an annotation, no label: the     *)
(* list by which deleteExternalResources deletes does not find the Work.   *)
LegacyWork(rd, id, clusters, manifests) ==
    [Work(rd, id, clusters, manifests) EXCEPT !.policy = None]

(* Mutant of LegacyTargeted: the label selector of a rule is not asked.    *)
LegacyTargetedNames(rd, k, lab, templates) ==
    IF templates = <<>> THEN {} ELSE rd.rules[k].target.names

(* The clusters of a rule are collected inside the loop over the           *)
(* resources, and are not restricted to the placement.                     *)
LegacyTargeted(rd, k, lab, templates) ==
    IF templates = <<>> THEN {}
    ELSE LegacyMatching(rd.rules[k].target.selector, lab) \cup rd.rules[k].target.names

(* getOverrideOptions: all fields of every overrider. *)
LegacyOptions(rule) ==
    [i \in 1..Len(rule.patch) |->
        [op |-> rule.patch[i].op, path |-> rule.patch[i].path, value |-> rule.patch[i].value]]

(* arrObj is kept from rule to rule here as well. *)
LegacyAccumulated(rd, templates, k) ==
    LET arr[i \in 0..k] ==
            IF i = 0 THEN <<>>
            ELSE arr[i - 1] \o LegacyPatched(templates, LegacyOptions(rd.rules[i]))
    IN  arr[k]

(* The rules before k raise no error and no panic. *)
LegacyReaches(rd, templates, k) ==
    \A j \in 1..k - 1 :
        /\ rd.rules[j].target # None \/ templates = <<>>
        /\ \A i \in 1..Len(templates) :
              Overrides(templates[i].body, rd.rules[j].patch)

(* A rule without a target is a nil pointer, followed after the first      *)
(* resource was patched.                                                   *)
LegacyPanics(rd, templates) ==
    /\ templates # <<>>
    /\ \E k \in 1..Len(rd.rules) :
          /\ LegacyReaches(rd, templates, k)
          /\ rd.rules[k].target = None
          /\ Overrides(templates[1].body, rd.rules[k].patch)

LegacySucceeds(rd, templates) ==
    Succeeds(rd, templates) /\ ~LegacyPanics(rd, templates)

(* The last Workload is for all placed clusters, those of rules included. *)
LegacyWorks(rd, lab, templates) ==
    [k \in 1..Len(rd.rules) |->
        LegacyWork(rd, rd.rules[k].id, LegacyTargeted(rd, k, lab, templates),
                   LegacyAccumulated(rd, templates, k))]
    \o (IF LegacyPlaced(rd, lab) = {}
        THEN <<>>
        ELSE <<LegacyWork(rd, rd.id, LegacyPlaced(rd, lab), templates)>>)

(* What these Workloads give a cluster when WorkReconciler applies them:   *)
(* it puts the spec of each manifest into the object the cluster has, so   *)
(* the last one prevails.                                                  *)
LegacyPrevailing(manifests, o) ==
    LET at == {i \in 1..Len(manifests) : manifests[i].obj = o}
    IN  {manifests[i].body : i \in {j \in at : \A n \in at : n <= j}}

LegacyGiven(works, c, o) ==
    UNION {LegacyPrevailing(works[i].manifests, o) :
             i \in {n \in 1..Len(works) : c \in works[n].clusters}}
=============================================================================
