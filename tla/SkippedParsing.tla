--------------------------- MODULE SkippedParsing ---------------------------
(***************************************************************************)
(* Parse of SkippedResourceConfig (pkg/utils/apigroup.go 49-129), which    *)
(* turns a list of tokens into what is skipped.  It is written for a flag  *)
(* --skipped-propagating-apis, which the program does not define yet.      *)
(*                                                                         *)
(* A token is cut at its commas into parts, a part at its slashes into     *)
(* names.  A name with a comma or a slash in it is no name of anything:    *)
(* all of them are Jumble.                                                 *)
(***************************************************************************)
EXTENDS Integers, Sequences, FiniteSets, SkippedResources

CONSTANTS
    Names,   \* what stands between slashes and commas
    Inputs,  \* sequences of tokens
    V1,      \* the names that begin with v1
    Gvrs     \* the API resources there are

(* What strings.Split returns has at least one element. *)
Tokens == Seq(Seq(Names) \ {<<>>}) \ {<<>>}

ASSUME ParsingConstants ==
    /\ Inputs \subseteq Seq(Tokens)
    /\ "v1" \in V1

VARIABLES
    input,   \* what is parsed
    left,    \* the tokens that are left
    cfg,     \* the SkippedResourceConfig
    outcome  \* of Parse

vars == <<input, left, cfg, outcome>>

Jumble == ","

(* There is a slash before each name of a part but its first. *)
SlashesAt(token) == UNION {{i} \X (2..Len(token[i])) : i \in 1..Len(token)}

Slashes(token) == Cardinality(SlashesAt(token))

(* strings.HasPrefix(token, "v1") *)
HasPrefixV1(token) == token[1][1] \in V1

Parts(token) == {token[i] : i \in 1..Len(token)}

Cut(token) == CHOOSE i \in 1..Len(token) : Len(token[i]) = 2

(* What a token adds; a part with too few names is an index out of range.  *)
NoSlash(token) == DisableGroup(cfg, IF Len(token) = 1 THEN token[1][1] ELSE Jumble)

(* Mutant of CoreKinds: only what has a slash is taken.                    *)
CoreKindsFirst(token) ==
    [cfg EXCEPT !.kinds = @ \cup {<<"", "v1", p[2]>> : p \in {q \in Parts(token) : Len(q) = 2}}]

CoreKinds(token) ==
    [cfg EXCEPT !.kinds = @ \cup {<<"", "v1", p[Len(p)]>> : p \in Parts(token)}]

GroupVersion(token) ==
    DisableGroupVersion(cfg,
        <<IF Cut(token) = 1 THEN token[1][1] ELSE Jumble,
          IF Cut(token) = Len(token) THEN token[Len(token)][2] ELSE Jumble>>)

TwoSlashesPanic(token) == \E p \in Parts(token) : Len(p) = 2

(* Mutant of Kinds: what was skipped before is forgotten. *)
KindsAnew(token) ==
    LET gv == CHOOSE p \in Parts(token) : Len(p) = 3
    IN  [Empty EXCEPT !.kinds = {<<gv[1], gv[2], p[Len(p)]>> : p \in Parts(token)}]

Kinds(token) ==
    LET gv == CHOOSE p \in Parts(token) : Len(p) = 3
    IN  [cfg EXCEPT !.kinds = @ \cup {<<gv[1], gv[2], p[Len(p)]>> : p \in Parts(token)}]

Init ==
    /\ input \in Inputs
    /\ left = input
    /\ cfg = Default
    /\ outcome = "none"

Stop(how) == outcome' = how /\ left' = <<>> /\ UNCHANGED <<input, cfg>>

Take(c) == cfg' = c /\ left' = Tail(left) /\ UNCHANGED <<input, outcome>>

(* parseSingle.  An error or a panic ends Parse; what the tokens before    *)
(* have added stays.                                                       *)
ParseSingle ==
    LET token == Head(left)
    IN  /\ left # <<>>
        /\ CASE Slashes(token) = 0 -> Take(NoSlash(token))
             [] Slashes(token) = 1 /\ HasPrefixV1(token) -> Take(CoreKinds(token))
             [] Slashes(token) = 1 /\ ~HasPrefixV1(token) -> Take(GroupVersion(token))
             [] Slashes(token) = 2 /\ TwoSlashesPanic(token) -> Stop("panic")
             [] Slashes(token) = 2 /\ ~TwoSlashesPanic(token) -> Take(Kinds(token))
             [] OTHER -> Stop("error")

Parsed ==
    /\ left = <<>> /\ outcome = "none"
    /\ outcome' = "parsed"
    /\ UNCHANGED <<input, left, cfg>>

Next == ParseSingle \/ Parsed

Spec == Init /\ [][Next]_vars

-----------------------------------------------------------------------------
(* Properties *)

(* The configuration has its three sets, among them always what            *)
(* NewSkippedResourceConfig put there.                                     *)
TypeOK ==
    /\ DOMAIN cfg = DOMAIN Empty
    /\ \A f \in DOMAIN Empty : Default[f] \subseteq cfg[f]
    /\ outcome \in {"none", "parsed", "error", "panic"}
    /\ outcome # "none" => left = <<>>

(* The forms of a token that the comments in parseSingle name: <group>,    *)
(* <group>/<version>, v1/<kind>,<kind>... and <group>/<version>/<kind>,... *)
Documented(token) ==
    LET names == {token[i] : i \in 2..Len(token)}
    IN  /\ \A p \in Parts(token), j \in 1..3 : j <= Len(p) => p[j] # ""
        /\ \A p \in names : Len(p) = 1
        /\ \/ Len(token[1]) \in {1, 2} /\ names = {}
           \/ Len(token[1]) = 2 /\ token[1][1] = "v1"
           \/ Len(token[1]) = 3

(* What they mean for API resource g.                                      *)
Says(token, g) ==
    LET p == token[1]
        kinds == {p[Len(p)]} \cup {token[i][1] : i \in 2..Len(token)}
    IN  \/ Len(p) = 1 /\ g.group = p[1]
        \/ Len(p) = 2 /\ p[1] # "v1" /\ g.group = p[1] /\ g.version = p[2]
        \/ Len(p) = 2 /\ p[1] = "v1" /\ g.group = "" /\ g.version = "v1" /\ g.kinds \cap kinds # {}
        \/ Len(p) = 3 /\ g.group = p[1] /\ g.version = p[2] /\ g.kinds \cap kinds # {}

(* A <group>/<version> whose group begins with v1, as v1alpha.example does, *)
(* is taken for a core kind with the name of the version.                  *)
Misread(token) == Len(token[1]) = 2 /\ HasPrefixV1(token) /\ token[1][1] # "v1"

Skips(token, g) ==
    IF Misread(token)
    THEN g.group = "" /\ g.version = "v1" /\ token[1][2] \in g.kinds
    ELSE Says(token, g)

(* A list of tokens in the documented forms is parsed without an error or  *)
(* a panic.  gvrDisabled then says of every API resource that it is        *)
(* skipped exactly if the default or a token says so, but for the one form *)
(* that parseSingle guesses wrong from the first letters: a group version  *)
(* whose group begins with v1 stays watched, and the core kind of the      *)
(* version's name is skipped in its place.  No other guess goes wrong, and *)
(* no token, a misread one neither, undoes another.                        *)
OnlyV1GroupsAreMisread ==
    (\A i \in 1..Len(input) : Documented(input[i])) =>
        /\ outcome \notin {"error", "panic"}
        /\ outcome = "parsed" =>
              \A g \in Gvrs :
                  DisabledBy(cfg, g) <=>
                      \/ DisabledBy(Default, g)
                      \/ \E i \in 1..Len(input) : Skips(input[i], g)
=============================================================================
