------------------------------ MODULE MCRouting ------------------------------
(* Model checking of the routing of events: RDs, resources, selectors. *)
EXTENDS RoutingProperties

CONSTANTS r1, r2, r3

OneRd == {r1}
TwoRds == {r1, r2}
ThreeRds == {r1, r2, r3}

(* A resource that is watched, and one that is not. *)
Apps == [group |-> "apps", version |-> "v1", kinds |-> {"Deployment"}]
Leases == [group |-> "coordination.k8s.io", version |-> "v1", kinds |-> {"Lease"}]
TwoGvrs == {Apps, Leases}

Key(g, ns, name) == [gvr |-> g, ns |-> ns, name |-> name]
Web == Key(Apps, "n", <<"w">>)
WebToo == Key(Apps, "n", <<"w", "x">>)
Lease == Key(Leases, "n", <<"w">>)
TheResources == {Web}
NoResource == {}

(* A name, the names that start with it, a namespace, an API resource that *)
(* is not watched, none.                                                   *)
OneSelector == {Web}
TwoSelectors == {Web, Key(Apps, "n", <<>>)}
=============================================================================
