----------------------------- MODULE MCPlanning -----------------------------
(* Model checking of generateWorks: the RDs, labels and resources. *)
EXTENDS Planning, TLC

CONSTANTS c1, c2, c3, east, p1, v1, v2, o1, o2

ThreeClusters == {c1, c2, c3}
OneLabel == {east}
TwoObjs == {[ns |-> "n", name |-> o1], [ns |-> "m", name |-> o2]}
OnePath == {p1}
TwoValues == {v1, v2}

SomeAffinities ==
    {None,
     [names |-> {c1}, selector |-> None],
     [names |-> {c1, c3}, selector |-> None],
     [names |-> {c2}, selector |-> {east}],
     [names |-> {}, selector |-> {}]}

Op(o, v) == [op |-> o, path |-> p1, value |-> v]
SomePatches ==
    {<<>>, <<Op("add", v2)>>, <<Op("remove", v1)>>,
     <<Op("replace", v2), Op("remove", v2)>>}

SomeRules == [target : SomeAffinities, patch : SomePatches]
Numbered(rs) == [k \in 1..Len(rs) |->
    [id |-> <<k>>, target |-> rs[k].target, patch |-> rs[k].patch]]

MCRds ==
    {[ns |-> "n", name |-> <<"a">>, uid |-> 1, id |-> <<"r">>,
      selector |-> s, placement |-> p, rules |-> Numbered(rs)] :
        s \in {[ns |-> None, name |-> None], [ns |-> "n", name |-> o1]},
        p \in SomeAffinities,
        rs \in {<<>>} \cup [1..1 -> SomeRules] \cup [1..2 -> SomeRules]}

(* c3 is named but has no Cluster object. *)
MCLabellings ==
    {(c1 :> {} @@ c2 :> {}), (c1 :> {} @@ c2 :> {east})}

T(o, v) == [obj |-> o, body |-> [p \in OnePath |-> v]]
N1 == [ns |-> "n", name |-> o1]
M2 == [ns |-> "m", name |-> o2]
MCHosts == {<<>>, <<T(N1, v1)>>, <<T(N1, v1), T(M2, None)>>}
=============================================================================
