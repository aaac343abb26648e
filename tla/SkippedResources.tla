-------------------------- MODULE SkippedResources --------------------------
(***************************************************************************)
(* Which API resources the program does not watch: SkippedResourceConfig   *)
(* (pkg/utils/apigroup.go) as NewSkippedResourceConfig fills it, and       *)
(* gvrDisabled (resource_controller.go 728-754), which asks it.            *)
(*                                                                         *)
(* An API resource is a record [group, version, kinds]: kinds is what the  *)
(* RESTMapper answers for it, {} if it fails.                              *)
(***************************************************************************)
Empty == [groups |-> {}, versions |-> {}, kinds |-> {}]

DisableGroup(cfg, g) == [cfg EXCEPT !.groups = @ \cup {g}]
DisableGroupVersion(cfg, gv) == [cfg EXCEPT !.versions = @ \cup {gv}]
DisableGroupVersionKind(cfg, gvk) == [cfg EXCEPT !.kinds = @ \cup {gvk}]

ClusterGVK == <<"cluster.kubesphere.io", "v1alpha1", "Cluster">>
RDGVK == <<"distribution.kubesphere.io", "v1", "ResourceDistribution">>
CoreEventGVK == <<"", "v1", "Event">>

(* NewSkippedResourceConfig: events, Clusters, RDs and leases. *)
Default ==
    LET events == DisableGroup(Empty, "events.k8s.io")
        clusters == DisableGroupVersionKind(events, ClusterGVK)
        rds == DisableGroupVersionKind(clusters, RDGVK)
        core == DisableGroupVersionKind(rds, CoreEventGVK)
    IN  DisableGroupVersion(core, <<"coordination.k8s.io", "v1">>)

GroupVersionDisabled(cfg, gv) == gv \in cfg.versions
GroupDisabled(cfg, g) == g \in cfg.groups
GroupVersionKindDisabled(cfg, gvk) == gvk \in cfg.kinds

(* gvrDisabled *)
DisabledBy(cfg, gvr) ==
    \/ GroupVersionDisabled(cfg, <<gvr.group, gvr.version>>)
    \/ GroupDisabled(cfg, gvr.group)
    \/ \E k \in gvr.kinds :
          GroupVersionKindDisabled(cfg, <<gvr.group, gvr.version, k>>)

Disabled(gvr) == DisabledBy(Default, gvr)
=============================================================================
