----------------------------- MODULE MCParsing ------------------------------
(* Model checking of Parse: every list of up to two tokens of up to two    *)
(* parts of up to three names.                                             *)
EXTENDS SkippedParsing

SomeNames == {"", "v1", "v1beta1", "apps", "Pod", "Event"}

(* Names that have their place, or none: what a part may consist of. *)
SomeParts ==
    {<<n>> : n \in SomeNames}
    \cup {<<g, v>> : g \in {"", "v1", "v1beta1", "apps"}, v \in {"v1", "Pod"}}
    \cup {<<g, "v1", k>> : g \in {"", "apps"}, k \in {"Pod", "Event"}}

SomeTokens == {<<p>> : p \in SomeParts} \cup {<<p, q>> : p, q \in SomeParts}

(* The empty list stands for the empty string, which is one empty token to *)
(* strings.Split and nothing to Parse.                                     *)
AllInputs ==
    ({<<t>> : t \in SomeTokens}
     \cup {<<t, u>> : t \in {<<p>> : p \in SomeParts}, u \in SomeTokens}
     \cup {<<>>}) \ {<<<<<<"">>>>>>}

BeginWithV1 == {"v1", "v1beta1"}

AllGvrs ==
    {[group |-> g, version |-> v, kinds |-> {k}] :
        g \in {"", "apps", "v1beta1"}, v \in {"v1", "v1beta1"}, k \in {"Pod", "Event"}}
    \cup {[group |-> "apps", version |-> "v1", kinds |-> {}]}
=============================================================================
