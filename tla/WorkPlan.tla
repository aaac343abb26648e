------------------------------ MODULE WorkPlan ------------------------------
(***************************************************************************)
(* The pure part of DistributionController: which Workloads a              *)
(* ResourceDistribution (RD) stands for (generateWorks and what it calls,  *)
(* pkg/controller/distribution/resource_controller.go 447-689).            *)
(*                                                                         *)
(* An RD is a record [ns, name, uid, id, selector, placement, rules]; id   *)
(* is its label SyncPolicyId.  Names are sequences of parts, the parts     *)
(* between the hyphens, so that joining two names is concatenation.  The   *)
(* paths of JSON patches are independent of each other: what contains them *)
(* exists.  An absent namespace or name of a selector is the empty string.  *)
(***************************************************************************)
EXTENDS Integers, Sequences

CONSTANTS
    Clusters,   \* names of member clusters
    Labels,     \* key/value pairs a Cluster may carry
    Objs,       \* the resources a selector may find, as [ns, name]
    Paths,      \* places in the spec of a resource that a patch may change
    Values,     \* what may be there
    None        \* no label selector, no affinity, no value, no name

(* ClusterAffinity *)
Affinities == [names : SUBSET Clusters, selector : SUBSET Labels \cup {None}]

(* PlaintextOverrider *)
Overriders == [op : {"add", "remove", "replace"}, path : Paths, value : Values]

(* RuleWithCluster; ids are sequences of parts like names *)
IsRule(x) ==
    /\ DOMAIN x = {"id", "target", "patch"}
    /\ x.target \in Affinities \cup {None}
    /\ x.patch \in Seq(Overriders)

Bodies == [Paths -> Values \cup {None}]

Manifests == [obj : Objs, body : Bodies]

-----------------------------------------------------------------------------
(* Templates *)

(* fetchResourceTemplateByRD: a resource by its name, or all of the kind   *)
(* in the namespace, or in all namespaces; host lists what there is.       *)
Fetched(selector, host) ==
    LET Selected(t) ==
            IF selector.name # None
            THEN t.obj = selector
            ELSE selector.ns = None \/ t.obj.ns = selector.ns
        found[i \in 0..Len(host)] ==
            IF i = 0 THEN <<>>
            ELSE IF Selected(host[i]) THEN Append(found[i - 1], host[i])
            ELSE found[i - 1]
    IN  found[Len(host)]

(* Get of a name that is not there is an error, an empty list is none. *)
Fetches(selector, host) ==
    selector.name = None \/ Fetched(selector, host) # <<>>

-----------------------------------------------------------------------------
(* Clusters *)

(* The Cluster objects (lab says which there are and how they are          *)
(* labelled) that MatchingLabels lists: an empty selector lists all of     *)
(* them, MatchExpressions are not looked at.                               *)
Matching(selector, lab) ==
    IF selector = None THEN {} ELSE {c \in DOMAIN lab : selector \subseteq lab[c]}

Chosen(affinity, lab) == affinity.names \cup Matching(affinity.selector, lab)

(* getClusterName *)
Placed(rd, lab) == IF rd.placement = None THEN {} ELSE Chosen(rd.placement, lab)

(* The clusters of rule k that are also placed; without a target all. *)
Targeted(rd, k, lab) ==
    IF rd.rules[k].target = None
    THEN Placed(rd, lab)
    ELSE Placed(rd, lab) \cap Chosen(rd.rules[k].target, lab)

(* Mutant of Residue: only the last rule's clusters are taken away. *)
ResidueOfLast(rd, lab) ==
    Placed(rd, lab) \ (IF rd.rules = <<>> THEN {} ELSE Targeted(rd, Len(rd.rules), lab))

(* The placed clusters that no rule targets. *)
Residue(rd, lab) ==
    Placed(rd, lab) \ UNION {Targeted(rd, k, lab) : k \in 1..Len(rd.rules)}

-----------------------------------------------------------------------------
(* Patches *)

(* "replace" and "remove" need something to be there. *)
Applicable(b, o) == o.op = "add" \/ b[o.path] # None

ApplyOp(b, o) == [b EXCEPT ![o.path] = IF o.op = "remove" THEN None ELSE o.value]

(* The body after each of the operations. *)
Steps(b, ops) ==
    LET f[i \in 0..Len(ops)] == IF i = 0 THEN b ELSE ApplyOp(f[i - 1], ops[i])
    IN  f

(* applyJSONPatchs *)
Override(b, ops) == Steps(b, ops)[Len(ops)]
Overrides(b, ops) ==
    \A i \in 1..Len(ops) : Applicable(Steps(b, ops)[i - 1], ops[i])

Patched(templates, ops) ==
    [i \in 1..Len(templates) |->
        [templates[i] EXCEPT !.body = Override(templates[i].body, ops)]]

(* arrObj after rule k.  It is declared outside the loop over the rules,   *)
(* so it still holds the objects of the rules before k.                    *)
Accumulated(rd, templates, k) ==
    LET arr[i \in 0..k] ==
            IF i = 0 THEN <<>>
            ELSE arr[i - 1] \o Patched(templates, rd.rules[i].patch)
    IN  arr[k]

-----------------------------------------------------------------------------
(* Workloads *)

(* createWork.  The owner is the RD's uid, policy its label SyncPolicy. *)
Work(rd, id, clusters, manifests) ==
    [ns |-> rd.ns, name |-> rd.name \o id, policy |-> rd.name,
     owner |-> rd.uid, clusters |-> clusters, manifests |-> manifests]

RuleWork(rd, lab, templates, k) ==
    Work(rd, rd.rules[k].id, Targeted(rd, k, lab), Accumulated(rd, templates, k))

ResidueWork(rd, lab, templates) ==
    Work(rd, rd.id, Residue(rd, lab), templates)

(* generateWorks fails as a whole when one patch fails. *)
Succeeds(rd, templates) ==
    \A k \in 1..Len(rd.rules), i \in 1..Len(templates) :
        Overrides(templates[i].body, rd.rules[k].patch)

(* One Workload per rule, also for a rule without clusters, and one for    *)
(* the clusters that are left, if there are any.                           *)
GenerateWorks(rd, lab, templates) ==
    [k \in 1..Len(rd.rules) |-> RuleWork(rd, lab, templates, k)]
    \o (IF Residue(rd, lab) = {}
        THEN <<>>
        ELSE <<ResidueWork(rd, lab, templates)>>)

-----------------------------------------------------------------------------
(* What the Workloads amount to, and what the RD asks for *)

(* Which of the manifests of an object a cluster gets that has not the     *)
(* object: the first one, of which it is created.  createWork copies the   *)
(* host's object with its uid, so that WorkloadController's Update by a    *)
(* later one is refused, and without a difference of the specs there is    *)
(* none.                                                                   *)
Prevailing(manifests, o) ==
    LET at == {i \in 1..Len(manifests) : manifests[i].obj = o}
    IN  {manifests[i].body : i \in {j \in at : \A n \in at : j <= n}}

(* What a list of Workloads gives cluster c of object o; more than one     *)
(* content if several Workloads compete.                                   *)
Given(works, c, o) ==
    UNION {Prevailing(works[i].manifests, o) :
             i \in {n \in 1..Len(works) : c \in works[n].clusters}}

Bodied(templates, o) ==
    {templates[i].body : i \in {n \in 1..Len(templates) : templates[n].obj = o}}

Ruling(rd, lab, c) == {k \in 1..Len(rd.rules) : c \in Targeted(rd, k, lab)}

(* What an RD asks for: nothing outside the placement; the object as some  *)
(* rule changes it if rules target the cluster; else as it is.             *)
Asked(rd, lab, templates, c, o) ==
    IF c \notin Placed(rd, lab) THEN {}
    ELSE IF Ruling(rd, lab, c) = {} THEN Bodied(templates, o)
    ELSE {Override(b, rd.rules[k].patch) :
             b \in Bodied(templates, o), k \in Ruling(rd, lab, c)}

(* The same, but the object as rule 1 changes it wherever a rule does.     *)
AskedOfFirst(rd, lab, templates, c, o) ==
    IF c \notin Placed(rd, lab) THEN {}
    ELSE IF Ruling(rd, lab, c) = {} THEN Bodied(templates, o)
    ELSE {Override(b, rd.rules[1].patch) : b \in Bodied(templates, o)}
=============================================================================
