--------------------------- MODULE MCDistribution ---------------------------
(* Model checking of DistributionController: what the runs choose from. *)
EXTENDS DistributionProperties, TLC

CONSTANTS c1, c2, east, p1, v1, v2, o1, q1

RdA == [ns |-> "n", name |-> <<"a">>]
OneRd == {RdA}

TwoClusters == {c1, c2}
OneLabel == {east}
OneObj == {[ns |-> "n", name |-> o1]}
OnePath == {p1}
TwoValues == {v1, v2}
OneProc == {q1}
Ids == <<<<"i">>, <<"j">>, <<"k">>, <<"l">>, <<"m">>, <<"o">>>>

Sel == [ns |-> "n", name |-> o1]
T(v) == [obj |-> [ns |-> "n", name |-> o1], body |-> [p \in OnePath |-> v]]
OneHost == {<<T(v1)>>}

OneLabelling == {(c1 :> {} @@ c2 :> {})}
EastComes == {(c1 :> {} @@ c2 :> {}), (c1 :> {east} @@ c2 :> {east})}

Named(cs) == [names |-> cs, selector |-> None]
East == [names |-> {}, selector |-> {east}]
RuleTo(id, t, v) ==
    [id |-> id, target |-> t,
     patch |-> <<[op |-> "replace", path |-> p1, value |-> v]>>]
Rd(p, rs) == [selector |-> Sel, placement |-> p, rules |-> rs]

(* A rule for one cluster; the same for another one, with other content.   *)
SmallSpecs ==
    {Rd(Named({c1}), <<RuleTo(<<"e">>, None, v2)>>),
     Rd(Named({c2}), <<RuleTo(<<"e">>, None, v1)>>)}

(* The clusters with a label, by two Workloads, the rule's and the         *)
(* residue, or by the residue alone.                                       *)
PairOrResidue ==
    {Rd(East, <<RuleTo(<<"e">>, Named({c1}), v2)>>), Rd(East, <<>>)}

(* The theorems about the Workloads suppose it. *)
ASSUME NamesAreApart == NamesApart
=============================================================================
