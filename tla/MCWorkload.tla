----------------------------- MODULE MCWorkload -----------------------------
(* Model checking of WorkloadController: what the runs choose from. *)
EXTENDS WorkloadProperties

CONSTANTS w1, w2, c1, c2, o1, o2, v1, v2, p1, p2

OneWork == {w1}
TwoWorks == {w1, w2}
OneCluster == {c1}
TwoClusters == {c1, c2}
OneObj == {o1}
TwoObjs == {o1, o2}
TwoVers == {v1, v2}
OneProc == {p1}
TwoProcs == {p1, p2}
NoCluster == {}

Man(o, v) == [obj |-> o, ver |-> v, uid |-> FALSE]
Spec1(cs, ms) == [clusters |-> cs, manifests |-> ms]

(* One object in one cluster, in two contents. *)
OneObjSpecs == {Spec1({c1}, <<Man(o1, v)>>) : v \in TwoVers}

(* One object in two clusters, or in one of them. *)
TwoClusterSpecs ==
    {Spec1(TwoClusters, <<Man(o1, v1)>>),
     Spec1(TwoClusters, <<Man(o1, v2)>>)}

(* One object in one cluster or, with another content, in the other. *)
MixedSpecs ==
    {Spec1({c1}, <<Man(o1, v1)>>), Spec1({c2}, <<Man(o1, v2)>>)}

(* A manifest without and one with the uid of the object of the host      *)
(* cluster it was made from.                                               *)
Uid(o, v) == [obj |-> o, ver |-> v, uid |-> TRUE]
FaultSpecs == {Spec1({c1}, <<Man(o1, v1)>>), Spec1({c1}, <<Uid(o1, v2)>>)}

(* One object, which has a uid; the same with other content, to which it   *)
(* cannot be updated, after two contents for another object.               *)
GrowingSpecs ==
    {Spec1({c1}, <<Uid(o2, v2)>>),
     Spec1({c1}, <<Man(o1, v1), Man(o1, v2), Uid(o2, v1)>>)}
=============================================================================
