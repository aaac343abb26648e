------------------------ MODULE SkippedParsing_proofs ------------------------
(***************************************************************************)
(* Theorems about Parse, for all lists of tokens and all API resources.    *)
(***************************************************************************)
EXTENDS SkippedParsing, SequenceTheorems, FiniteSetTheorems, TLAPS

-----------------------------------------------------------------------------
(* Tokens *)

LEMMA TokenParts ==
    ASSUME NEW token \in Tokens
    PROVE  /\ Len(token) \in Nat \ {0}
           /\ \A i \in 1..Len(token) :
                 token[i] \in Seq(Names) /\ Len(token[i]) \in Nat \ {0}
<1>1. token \in Seq(Seq(Names) \ {<<>>}) /\ token # <<>>
  BY DEF Tokens
<1>2. Len(token) \in Nat \ {0}
  BY <1>1, LenProperties, EmptySeq
<1>3. ASSUME NEW i \in 1..Len(token)
      PROVE  token[i] \in Seq(Names) /\ Len(token[i]) \in Nat \ {0}
  <2>1. token[i] \in Seq(Names) /\ token[i] # <<>>
    BY <1>1, ElementOfSeq
  <2>2. QED
    BY <2>1, LenProperties, EmptySeq
<1>4. QED
  BY <1>2, <1>3

(* The forms that are documented. *)
LEMMA DocumentedForms ==
    ASSUME NEW token \in Tokens, Documented(token)
    PROVE  /\ \A i \in 2..Len(token) : Len(token[i]) = 1
           /\ Len(token[1]) \in {1, 2, 3}
           /\ Len(token[1]) = 1 => Len(token) = 1
           /\ Len(token[1]) = 2 /\ ~HasPrefixV1(token) => token[1][1] # "v1" /\ Len(token) = 1
           /\ Misread(token) => Len(token) = 1
<1> DEFINE names == {token[i] : i \in 2..Len(token)}
           n == Len(token[1])
<1>1. Len(token) \in Nat \ {0} /\ n \in Nat
  BY TokenParts
<1>2. \A p \in names : Len(p) = 1
  BY DEF Documented
<1>3. \/ n \in {1, 2} /\ names = {}
      \/ n = 2 /\ token[1][1] = "v1"
      \/ n = 3
  BY DEF Documented
<1>4. names = {} => Len(token) = 1
  <2>1. SUFFICES ASSUME Len(token) # 1 PROVE names # {}
    OBVIOUS
  <2>2. 2 \in 2..Len(token)
    BY <1>1, <2>1
  <2>3. QED
    BY <2>2
<1>5. \A i \in 2..Len(token) : token[i] \in names
  OBVIOUS
<1>6. token[1][1] = "v1" => HasPrefixV1(token)
  BY ParsingConstants DEF HasPrefixV1
<1> HIDE DEF names
<1>7. n = 1 => names = {}
  BY <1>1, <1>3
<1>8. n = 2 /\ ~HasPrefixV1(token) => names = {}
  BY <1>1, <1>3, <1>6
<1>9. Misread(token) => n = 2 /\ names = {}
  BY <1>1, <1>3 DEF Misread
<1>10. QED
  BY <1>2, <1>3, <1>4, <1>5, <1>6, <1>7, <1>8, <1>9

(* A token of these forms has all its slashes in the first part.           *)
LEMMA DocumentedSlashes ==
    ASSUME NEW token \in Tokens, Documented(token)
    PROVE  /\ Len(token[1]) = 1 => Slashes(token) = 0
           /\ Len(token[1]) = 2 => Slashes(token) = 1
           /\ Len(token[1]) = 3 => Slashes(token) = 2
<1> DEFINE n == Len(token[1])
<1>1. Len(token) \in Nat \ {0} /\ 1 \in 1..Len(token) /\ n \in Nat \ {0}
  BY TokenParts
<1>2. (\A i \in 2..Len(token) : Len(token[i]) = 1) /\ n \in {1, 2, 3}
  BY DocumentedForms
<1>3. \A x : x \in SlashesAt(token) <=> x \in {1} \X (2..n)
  <2>1. ASSUME NEW i \in 1..Len(token), NEW x \in {i} \X (2..Len(token[i])) PROVE i = 1
    <3>1. SUFFICES ASSUME i # 1 PROVE FALSE
      OBVIOUS
    <3>2. Len(token[i]) = 1
      BY <1>1, <1>2, <3>1
    <3>3. 2..Len(token[i]) = {}
      BY <3>2
    <3>4. QED
      BY <3>3
  <2>2. \A x : x \in SlashesAt(token) <=>
                  \E i \in 1..Len(token) : x \in {i} \X (2..Len(token[i]))
    BY DEF SlashesAt
  <2>3. QED
    BY <1>1, <2>1, <2>2
<1>4. SlashesAt(token) = {1} \X (2..n)
  BY <1>3
<1> DEFINE one == <<1, 2>>
           two == <<1, 3>>
<1>5. CASE n = 1
  <2>1. SlashesAt(token) = {}
    BY <1>4, <1>5
  <2>2. QED
    BY <1>5, <2>1, FS_EmptySet DEF Slashes
<1>6. CASE n = 2
  <2>1. SlashesAt(token) = {one}
    BY <1>4, <1>6
  <2> HIDE DEF one
  <2>2. Cardinality({one}) = 1
    BY FS_Singleton
  <2>3. QED
    BY <1>6, <2>1, <2>2 DEF Slashes
<1>7. CASE n = 3
  <2>1. SlashesAt(token) = {one} \cup {two}
    BY <1>4, <1>7
  <2>2. two \notin {one}
    OBVIOUS
  <2> HIDE DEF one, two
  <2>3. IsFiniteSet({one}) /\ Cardinality({one}) = 1
    BY FS_Singleton
  <2>4. Cardinality({one} \cup {two}) = 2
    BY <2>2, <2>3, FS_AddElement
  <2>5. QED
    BY <1>7, <2>1, <2>4 DEF Slashes
<1>8. QED
  BY <1>2, <1>5, <1>6, <1>7

(* The names of kinds a token ends in. *)
KindsOf(token) == {p[Len(p)] : p \in Parts(token)}

LEMMA DocumentedKinds ==
    ASSUME NEW token \in Tokens, Documented(token)
    PROVE  KindsOf(token) =
              {token[1][Len(token[1])]} \cup {token[i][1] : i \in 2..Len(token)}
<1>1. \A i \in 2..Len(token) : Len(token[i]) = 1
  BY DocumentedForms
<1>2. Len(token) \in Nat \ {0}
  BY TokenParts
<1>3. KindsOf(token) = {token[i][Len(token[i])] : i \in 1..Len(token)}
  BY DEF KindsOf, Parts
<1>4. \A i \in 1..Len(token) : i = 1 \/ i \in 2..Len(token)
  BY <1>2
<1>5. 1 \in 1..Len(token) /\ \A i \in 2..Len(token) : i \in 1..Len(token)
  BY <1>2
<1>6. QED
  BY <1>1, <1>3, <1>4, <1>5

-----------------------------------------------------------------------------
(* What a token adds *)

(* A configuration is a record of three sets. *)
Shaped(c) == c = [groups |-> c.groups, versions |-> c.versions, kinds |-> c.kinds]

(* c with one more group, one more pair of group and version, more kinds.  *)
WithGroup(c, x) == [groups |-> c.groups \cup {x}, versions |-> c.versions, kinds |-> c.kinds]

WithVersion(c, group, version) ==
    [groups |-> c.groups, versions |-> c.versions \cup {<<group, version>>}, kinds |-> c.kinds]

Named(group, version, names) == {<<group, version, k>> : k \in names}

WithKinds(c, group, version, names) ==
    [groups |-> c.groups, versions |-> c.versions,
     kinds |-> c.kinds \cup Named(group, version, names)]

LEMMA GroupAdded ==
    ASSUME NEW c, NEW x, NEW g
    PROVE  DisabledBy(WithGroup(c, x), g) <=> DisabledBy(c, g) \/ g.group = x
BY DEF WithGroup, DisabledBy, GroupDisabled, GroupVersionDisabled, GroupVersionKindDisabled

LEMMA VersionAdded ==
    ASSUME NEW c, NEW group, NEW version, NEW g
    PROVE  DisabledBy(WithVersion(c, group, version), g) <=>
              DisabledBy(c, g) \/ (g.group = group /\ g.version = version)
BY DEF WithVersion, DisabledBy, GroupDisabled, GroupVersionDisabled, GroupVersionKindDisabled

LEMMA KindsAdded ==
    ASSUME NEW c, NEW group, NEW version, NEW names, NEW g
    PROVE  DisabledBy(WithKinds(c, group, version, names), g) <=>
              \/ DisabledBy(c, g)
              \/ g.group = group /\ g.version = version /\ g.kinds \cap names # {}
<1>1. \A k : <<g.group, g.version, k>> \in Named(group, version, names) <=>
                g.group = group /\ g.version = version /\ k \in names
  BY DEF Named
<1>2. DisabledBy(WithKinds(c, group, version, names), g) <=>
         \/ DisabledBy(c, g)
         \/ \E k \in g.kinds : <<g.group, g.version, k>> \in Named(group, version, names)
  BY DEF WithKinds, DisabledBy, GroupDisabled, GroupVersionDisabled, GroupVersionKindDisabled
<1>3. QED
  BY <1>1, <1>2

LEMMA DefaultShaped == Shaped(Default)
<1> DEFINE a == DisableGroup(Empty, "events.k8s.io")
           b == DisableGroupVersionKind(a, ClusterGVK)
           c == DisableGroupVersionKind(b, RDGVK)
           d == DisableGroupVersionKind(c, CoreEventGVK)
<1>1. Shaped(Empty)
  BY DEF Empty, Shaped
<1>2. Shaped(a)
  BY <1>1 DEF DisableGroup, Shaped
<1>3. \A x, y : Shaped(x) => Shaped(DisableGroupVersionKind(x, y))
  BY DEF DisableGroupVersionKind, Shaped
<1>4. \A x, y : Shaped(x) => Shaped(DisableGroupVersion(x, y))
  BY DEF DisableGroupVersion, Shaped
<1>5. Default = DisableGroupVersion(d, <<"coordination.k8s.io", "v1">>)
  BY DEF Default
<1> HIDE DEF a
<1>6. Shaped(b)
  BY <1>2, <1>3
<1> HIDE DEF b
<1>7. Shaped(c)
  BY <1>3, <1>6
<1> HIDE DEF c
<1>8. Shaped(d)
  BY <1>3, <1>7
<1> HIDE DEF d
<1>9. QED
  BY <1>4, <1>5, <1>8

Gv(token) == CHOOSE p \in Parts(token) : Len(p) = 3

(* Each case of parseSingle adds to one of the three sets.                 *)
LEMMA TokenAdds ==
    ASSUME Shaped(cfg), NEW token
    PROVE  /\ NoSlash(token) =
                 WithGroup(cfg, IF Len(token) = 1 THEN token[1][1] ELSE Jumble)
           /\ CoreKinds(token) = WithKinds(cfg, "", "v1", KindsOf(token))
           /\ GroupVersion(token) =
                 WithVersion(cfg, IF Cut(token) = 1 THEN token[1][1] ELSE Jumble,
                             IF Cut(token) = Len(token) THEN token[Len(token)][2] ELSE Jumble)
           /\ Kinds(token) = WithKinds(cfg, Gv(token)[1], Gv(token)[2], KindsOf(token))
<1>1. NoSlash(token) = WithGroup(cfg, IF Len(token) = 1 THEN token[1][1] ELSE Jumble)
  BY DEF NoSlash, DisableGroup, WithGroup, Shaped
<1>2. ASSUME NEW group, NEW version
      PROVE  {<<group, version, p[Len(p)]>> : p \in Parts(token)} =
                Named(group, version, KindsOf(token))
  BY DEF KindsOf, Named
<1>3. CoreKinds(token) =
          [cfg EXCEPT !.kinds = cfg.kinds \cup Named("", "v1", KindsOf(token))]
  BY <1>2 DEF CoreKinds
<1>4. GroupVersion(token) =
          WithVersion(cfg, IF Cut(token) = 1 THEN token[1][1] ELSE Jumble,
                      IF Cut(token) = Len(token) THEN token[Len(token)][2] ELSE Jumble)
  BY DEF GroupVersion, DisableGroupVersion, WithVersion, Shaped
<1>5. Kinds(token) =
          [cfg EXCEPT !.kinds = cfg.kinds \cup Named(Gv(token)[1], Gv(token)[2], KindsOf(token))]
  BY <1>2 DEF Kinds, Gv
<1>6. ASSUME NEW new
      PROVE  [cfg EXCEPT !.kinds = cfg.kinds \cup new] =
                [groups |-> cfg.groups, versions |-> cfg.versions, kinds |-> cfg.kinds \cup new]
  BY DEF Shaped
<1>7. QED
  BY <1>1, <1>3, <1>4, <1>5, <1>6 DEF WithKinds

(* Where parseSingle takes a token, the configuration only grows.          *)
Grown(c) == Shaped(c) /\ \A f \in DOMAIN Empty : cfg[f] \subseteq c[f]

LEMMA TakeGrows ==
    ASSUME Shaped(cfg), NEW token
    PROVE  /\ Grown(NoSlash(token)) /\ Grown(CoreKinds(token))
           /\ Grown(GroupVersion(token)) /\ Grown(Kinds(token))
<1>1. DOMAIN Empty = {"groups", "versions", "kinds"}
  BY DEF Empty
<1>2. ASSUME NEW x PROVE Grown(WithGroup(cfg, x))
  BY <1>1 DEF Grown, Shaped, WithGroup
<1>3. ASSUME NEW x, NEW y PROVE Grown(WithVersion(cfg, x, y))
  BY <1>1 DEF Grown, Shaped, WithVersion
<1>4. ASSUME NEW x, NEW y, NEW z PROVE Grown(WithKinds(cfg, x, y, z))
  BY <1>1 DEF Grown, Shaped, WithKinds
<1>5. QED
  BY <1>2, <1>3, <1>4, TokenAdds

(* What each form of a token adds is what Skips says.                      *)
Understood(c, token) == \A g : DisabledBy(c, g) <=> DisabledBy(cfg, g) \/ Skips(token, g)

LEMMA SaysOf ==
    ASSUME NEW token \in Tokens, Documented(token), NEW g
    PROVE  LET group == token[1][1]
               version == token[1][2]
           IN  /\ Len(token[1]) = 1 => (Says(token, g) <=> g.group = group)
               /\ Len(token[1]) = 2 /\ group # "v1" =>
                     (Says(token, g) <=> g.group = group /\ g.version = version)
               /\ Len(token[1]) = 2 /\ group = "v1" =>
                     (Says(token, g) <=>
                         g.group = "" /\ g.version = "v1" /\ g.kinds \cap KindsOf(token) # {})
               /\ Len(token[1]) = 3 =>
                     (Says(token, g) <=>
                         g.group = group /\ g.version = version
                         /\ g.kinds \cap KindsOf(token) # {})
<1> DEFINE p == token[1]
           kinds == {p[Len(p)]} \cup {token[i][1] : i \in 2..Len(token)}
           one == Len(p) = 1
           two == Len(p) = 2
           three == Len(p) = 3
           core == p[1] = "v1"
           inGroup == g.group = p[1]
           inVersion == g.version = p[2]
           inCore == g.group = "" /\ g.version = "v1"
           ofKind == g.kinds \cap kinds # {}
<1>1. Says(token, g) <=>
         \/ one /\ inGroup
         \/ two /\ ~core /\ inGroup /\ inVersion
         \/ two /\ core /\ inCore /\ ofKind
         \/ three /\ inGroup /\ inVersion /\ ofKind
  BY DEF Says
<1>2. kinds = KindsOf(token)
  BY DocumentedKinds
<1>3. ~(one /\ two) /\ ~(one /\ three) /\ ~(two /\ three)
  OBVIOUS
<1> HIDE DEF one, two, three, kinds
<1>4. /\ one => (Says(token, g) <=> inGroup)
      /\ two /\ ~core => (Says(token, g) <=> inGroup /\ inVersion)
      /\ two /\ core => (Says(token, g) <=> inCore /\ ofKind)
      /\ three => (Says(token, g) <=> inGroup /\ inVersion /\ ofKind)
  BY <1>1, <1>3
<1>5. QED
  BY <1>2, <1>4 DEF one, two, three

(* A token that is not misread skips what it says. *)
LEMMA SkipsAsSaid ==
    ASSUME NEW token, NEW g, ~Misread(token)
    PROVE  Skips(token, g) <=> Says(token, g)
BY DEF Skips

LEMMA GroupUnderstood ==
    ASSUME Shaped(cfg), NEW token \in Tokens, Documented(token), Len(token[1]) = 1
    PROVE  Understood(NoSlash(token), token)
<1> DEFINE x == token[1][1]
<1>1. NoSlash(token) = WithGroup(cfg, x)
  BY DocumentedForms, TokenAdds
<1>2. ASSUME NEW g PROVE Skips(token, g) <=> g.group = x
  <2>1. ~Misread(token)
    BY DEF Misread
  <2>2. QED
    BY <2>1, SkipsAsSaid, SaysOf
<1> HIDE DEF x
<1>3. QED
  BY <1>1, <1>2, GroupAdded DEF Understood

LEMMA GroupVersionUnderstood ==
    ASSUME Shaped(cfg), NEW token \in Tokens, Documented(token), Len(token[1]) = 2,
           ~HasPrefixV1(token)
    PROVE  Understood(GroupVersion(token), token)
<1> DEFINE x == token[1][1]
           y == token[1][2]
<1>1. x # "v1" /\ Len(token) = 1
  BY DocumentedForms
<1>2. Cut(token) = 1
  BY <1>1 DEF Cut
<1>3. GroupVersion(token) = WithVersion(cfg, x, y)
  BY <1>1, <1>2, TokenAdds
<1>4. ASSUME NEW g PROVE Skips(token, g) <=> g.group = x /\ g.version = y
  <2>1. ~Misread(token)
    BY DEF Misread
  <2>2. QED
    BY <1>1, <2>1, SkipsAsSaid, SaysOf
<1> HIDE DEF x, y
<1>5. QED
  BY <1>3, <1>4, VersionAdded DEF Understood

LEMMA CoreKindsUnderstood ==
    ASSUME Shaped(cfg), NEW token \in Tokens, Documented(token), Len(token[1]) = 2,
           HasPrefixV1(token)
    PROVE  Understood(CoreKinds(token), token)
<1> DEFINE x == ""
           y == "v1"
<1>1. CoreKinds(token) = WithKinds(cfg, x, y, KindsOf(token))
  BY TokenAdds
<1>2. ASSUME NEW g
      PROVE  Skips(token, g) <=>
                g.group = x /\ g.version = y /\ g.kinds \cap KindsOf(token) # {}
  <2>1. CASE token[1][1] = "v1"
    <3>1. ~Misread(token)
      BY <2>1 DEF Misread
    <3>2. QED
      BY <2>1, <3>1, SkipsAsSaid, SaysOf
  <2>2. CASE token[1][1] # "v1"
    <3>1. Misread(token)
      BY <2>2 DEF Misread
    <3>2. Len(token) = 1
      BY <3>1, DocumentedForms
    <3>3. KindsOf(token) = {token[1][2]}
      BY <3>2 DEF KindsOf, Parts
    <3>4. token[1][2] \in g.kinds <=> g.kinds \cap KindsOf(token) # {}
      BY <3>3
    <3>5. QED
      BY <3>1, <3>4 DEF Skips
  <2>3. QED
    BY <2>1, <2>2
<1> HIDE DEF x, y
<1>3. QED
  BY <1>1, <1>2, KindsAdded DEF Understood

LEMMA KindsUnderstood ==
    ASSUME Shaped(cfg), NEW token \in Tokens, Documented(token), Len(token[1]) = 3
    PROVE  /\ Understood(Kinds(token), token)
           /\ ~TwoSlashesPanic(token)
<1> DEFINE x == token[1][1]
           y == token[1][2]
<1>1. Len(token) \in Nat \ {0} /\ \A i \in 2..Len(token) : Len(token[i]) = 1
  BY TokenParts, DocumentedForms
<1>2. \A i \in 1..Len(token) : i = 1 \/ i \in 2..Len(token)
  BY <1>1
<1>3. token[1] \in Parts(token) /\ \A p \in Parts(token) : p = token[1] \/ Len(p) = 1
  BY <1>1, <1>2 DEF Parts
<1>4. Gv(token) = token[1]
  BY <1>3 DEF Gv
<1>5. ~TwoSlashesPanic(token)
  BY <1>3 DEF TwoSlashesPanic
<1>6. Kinds(token) = WithKinds(cfg, x, y, KindsOf(token))
  BY <1>4, TokenAdds
<1>7. ASSUME NEW g
      PROVE  Skips(token, g) <=>
                g.group = x /\ g.version = y /\ g.kinds \cap KindsOf(token) # {}
  <2>1. ~Misread(token)
    BY DEF Misread
  <2>2. QED
    BY <2>1, SkipsAsSaid, SaysOf
<1> HIDE DEF x, y
<1>8. Understood(Kinds(token), token)
  BY <1>6, <1>7, KindsAdded DEF Understood
<1>9. QED
  BY <1>5, <1>8

-----------------------------------------------------------------------------
(* The invariant *)

Taken == Len(input) - Len(left)

(* left is the rest of input. *)
Rest ==
    /\ input \in Seq(Tokens)
    /\ left \in Seq(Tokens)
    /\ Len(left) <= Len(input)
    /\ \A i \in 1..Len(left) : left[i] = input[Taken + i]

Shape ==
    /\ Shaped(cfg)
    /\ \A f \in DOMAIN Empty : Default[f] \subseteq cfg[f]

Ending ==
    /\ outcome \in {"none", "parsed", "error", "panic"}
    /\ outcome # "none" => left = <<>>

AllDocumented == \A i \in 1..Len(input) : Documented(input[i])

(* What the tokens taken so far skip is what is skipped. *)
Said ==
    \A g : DisabledBy(cfg, g) <=>
              DisabledBy(Default, g) \/ \E i \in 1..Taken : Skips(input[i], g)

ParsingInv ==
    /\ Rest
    /\ Shape
    /\ Ending
    /\ AllDocumented => outcome \notin {"error", "panic"} /\ Said

LEMMA InitInv == Init => ParsingInv
<1> SUFFICES ASSUME Init PROVE ParsingInv
  OBVIOUS
<1>1. input \in Seq(Tokens) /\ left = input /\ cfg = Default /\ outcome = "none"
  BY ParsingConstants DEF Init
<1>2. Len(input) \in Nat
  BY <1>1, LenProperties
<1>3. Taken = 0
  BY <1>1, <1>2 DEF Taken
<1>4. Rest
  BY <1>1, <1>2, <1>3 DEF Rest
<1>5. Shape /\ Ending
  BY <1>1, DefaultShaped DEF Shape, Ending
<1>6. Said
  <2>1. 1..Taken = {}
    BY <1>3
  <2>2. QED
    BY <1>1, <2>1 DEF Said
<1>7. QED
  BY <1>1, <1>4, <1>5, <1>6 DEF ParsingInv

(* One more token is taken. *)
LEMMA TailTaken ==
    ASSUME Rest, left # <<>>, left' = Tail(left), input' = input
    PROVE  /\ Rest'
           /\ Taken \in Nat /\ Taken' = Taken + 1
           /\ Taken + 1 \in 1..Len(input)
           /\ Head(left) = input[Taken + 1]
           /\ Head(left) \in Tokens
<1>1. Len(left) \in Nat \ {0} /\ Len(input) \in Nat /\ Head(left) = left[1] /\ Head(left) \in Tokens
  BY LenProperties, EmptySeq, ElementOfSeq DEF Rest
<1>2. /\ Tail(left) \in Seq(Tokens)
      /\ Len(Tail(left)) = Len(left) - 1
      /\ \A i \in 1..Len(left) - 1 : Tail(left)[i] = left[i + 1]
  BY HeadTailProperties DEF Rest
<1>3. Taken \in Nat /\ Taken' = Taken + 1 /\ Taken + 1 \in 1..Len(input)
  BY <1>1, <1>2 DEF Rest, Taken
<1>4. Head(left) = input[Taken + 1]
  BY <1>1 DEF Rest
<1>5. ASSUME NEW i \in 1..Len(left') PROVE left'[i] = input[Taken' + i]
  <2>1. i \in 1..Len(left) - 1 /\ i + 1 \in 1..Len(left)
    BY <1>1, <1>2
  <2>2. left'[i] = left[i + 1] /\ left[i + 1] = input[Taken + (i + 1)]
    BY <1>2, <2>1 DEF Rest
  <2>3. Taken + (i + 1) = Taken' + i
    BY <1>3, <2>1
  <2>4. QED
    BY <2>2, <2>3
<1>6. Rest'
  BY <1>1, <1>2, <1>5 DEF Rest
<1>7. QED
  BY <1>1, <1>3, <1>4, <1>6

(* parseSingle understands the documented forms. *)
LEMMA DocumentedTaken ==
    ASSUME Shaped(cfg), ParseSingle, Head(left) \in Tokens, Documented(Head(left))
    PROVE  \E c : Understood(c, Head(left)) /\ Take(c)
<1> DEFINE token == Head(left)
<1>1. Len(token[1]) \in {1, 2, 3}
  BY DocumentedForms
<1>2. CASE Len(token[1]) = 1
  <2>1. Slashes(token) = 0
    BY <1>2, DocumentedSlashes
  <2>2. Take(NoSlash(token))
    BY <2>1 DEF ParseSingle
  <2>3. QED
    BY <1>2, <2>2, GroupUnderstood
<1>3. CASE Len(token[1]) = 2 /\ HasPrefixV1(token)
  <2>1. Slashes(token) = 1
    BY <1>3, DocumentedSlashes
  <2>2. Take(CoreKinds(token))
    BY <1>3, <2>1 DEF ParseSingle
  <2>3. QED
    BY <1>3, <2>2, CoreKindsUnderstood
<1>4. CASE Len(token[1]) = 2 /\ ~HasPrefixV1(token)
  <2>1. Slashes(token) = 1
    BY <1>4, DocumentedSlashes
  <2>2. Take(GroupVersion(token))
    BY <1>4, <2>1 DEF ParseSingle
  <2>3. QED
    BY <1>4, <2>2, GroupVersionUnderstood
<1>5. CASE Len(token[1]) = 3
  <2>1. Slashes(token) = 2 /\ ~TwoSlashesPanic(token)
    BY <1>5, DocumentedSlashes, KindsUnderstood
  <2>2. Take(Kinds(token))
    BY <2>1 DEF ParseSingle
  <2>3. QED
    BY <1>5, <2>2, KindsUnderstood
<1>6. QED
  BY <1>1, <1>2, <1>3, <1>4, <1>5

(* In any case the configuration grows, or Parse ends. *)
LEMMA ParseSteps ==
    ASSUME Shaped(cfg), ParseSingle
    PROVE  \/ \E c : Grown(c) /\ Take(c)
           \/ \E how \in {"error", "panic"} : Stop(how)
<1> DEFINE token == Head(left)
<1>1. \/ Take(NoSlash(token)) \/ Take(CoreKinds(token))
      \/ Take(GroupVersion(token)) \/ Take(Kinds(token))
      \/ Stop("panic") \/ Stop("error")
  BY DEF ParseSingle
<1>2. QED
  BY <1>1, TakeGrows

LEMMA NextInv == ParsingInv /\ [Next]_vars => ParsingInv'
<1> SUFFICES ASSUME ParsingInv, [Next]_vars PROVE ParsingInv'
  OBVIOUS
<1>1. Rest /\ Shape /\ Ending /\ Shaped(cfg)
  BY DEF ParsingInv, Shape
<1>2. CASE ParseSingle
  <2>1. CASE \E c : Grown(c) /\ Take(c)
    <3>1. PICK c : Grown(c) /\ Take(c)
      BY <2>1
    <3>2. /\ left # <<>> /\ left' = Tail(left) /\ input' = input
          /\ cfg' = c /\ outcome' = outcome
      BY <1>2, <3>1 DEF ParseSingle, Take
    <3>3. /\ Rest'
          /\ Taken \in Nat /\ Taken' = Taken + 1 /\ Taken + 1 \in 1..Len(input)
          /\ Head(left) = input[Taken + 1] /\ Head(left) \in Tokens
      BY <1>1, <3>2, TailTaken
    <3>4. Shape' /\ Ending'
      BY <1>1, <3>1, <3>2 DEF Shape, Ending, Grown
    <3>5. ASSUME AllDocumented' PROVE outcome' \notin {"error", "panic"} /\ Said'
      <4>1. AllDocumented /\ Documented(Head(left))
        BY <3>2, <3>3, <3>5 DEF AllDocumented
      <4>2. outcome \notin {"error", "panic"} /\ Said
        BY <4>1 DEF ParsingInv
      <4>3. Understood(cfg', Head(left))
        <5>1. PICK d : Understood(d, Head(left)) /\ Take(d)
          BY <1>1, <1>2, <3>3, <4>1, DocumentedTaken
        <5>2. QED
          BY <5>1 DEF Take
      <4>4. ASSUME NEW g
            PROVE  DisabledBy(cfg', g) <=>
                      DisabledBy(Default, g) \/ \E i \in 1..Taken' : Skips(input'[i], g)
        <5>1. DisabledBy(cfg', g) <=> DisabledBy(cfg, g) \/ Skips(input[Taken + 1], g)
          BY <3>3, <4>3 DEF Understood
        <5>2. DisabledBy(cfg, g) <=>
                 DisabledBy(Default, g) \/ \E i \in 1..Taken : Skips(input[i], g)
          BY <4>2 DEF Said
        <5>3. \A i : i \in 1..Taken' <=> i \in 1..Taken \/ i = Taken + 1
          BY <3>3
        <5>4. QED
          BY <3>2, <5>1, <5>2, <5>3
      <4>5. QED
        BY <3>2, <4>2, <4>4 DEF Said
    <3>6. QED
      BY <3>3, <3>4, <3>5 DEF ParsingInv
  <2>2. CASE \E how \in {"error", "panic"} : Stop(how)
    <3>1. PICK how \in {"error", "panic"} : Stop(how)
      BY <2>2
    <3>2. left # <<>> /\ left' = <<>> /\ input' = input /\ cfg' = cfg /\ outcome' = how
      BY <1>2, <3>1 DEF ParseSingle, Stop
    <3>3. Rest'
      <4>1. Len(left') = 0 /\ left' \in Seq(Tokens) /\ Len(input) \in Nat
        BY <1>1, <3>2, EmptySeq, LenProperties DEF Rest
      <4>2. QED
        BY <1>1, <3>2, <4>1 DEF Rest
    <3>4. Shape' /\ Ending'
      BY <1>1, <3>2 DEF Shape, Ending
    <3>5. ~AllDocumented'
      <4>1. SUFFICES ASSUME AllDocumented' PROVE FALSE
        OBVIOUS
      <4>2. Documented(Head(left)) /\ Head(left) \in Tokens
        <5>1. Len(left) \in Nat \ {0} /\ Head(left) = left[1] /\ Head(left) \in Tokens
          BY <1>1, <3>2, LenProperties, EmptySeq, ElementOfSeq DEF Rest
        <5>2. Len(input) \in Nat
          BY <1>1, LenProperties DEF Rest
        <5>3. Taken + 1 \in 1..Len(input) /\ Head(left) = input[Taken + 1]
          BY <1>1, <5>1, <5>2 DEF Rest, Taken
        <5>4. QED
          BY <3>2, <4>1, <5>1, <5>3 DEF AllDocumented
      <4>3. PICK d : Take(d)
        BY <1>1, <1>2, <4>2, DocumentedTaken
      <4>4. outcome' = outcome
        BY <4>3 DEF Take
      <4>5. outcome = "none"
        BY <1>1, <3>2 DEF Ending
      <4>6. QED
        BY <3>2, <4>4, <4>5
    <3>6. QED
      BY <3>3, <3>4, <3>5 DEF ParsingInv
  <2>3. QED
    BY <1>1, <1>2, <2>1, <2>2, ParseSteps
<1>3. CASE Parsed
  <2>1. left = <<>> /\ outcome' = "parsed" /\ UNCHANGED <<input, left, cfg>>
    BY <1>3 DEF Parsed
  <2>2. Rest' /\ Shape' /\ Ending' /\ (Said => Said') /\ (AllDocumented' => AllDocumented)
    BY <1>1, <2>1 DEF Rest, Shape, Ending, Said, AllDocumented, Taken
  <2>3. QED
    BY <2>1, <2>2 DEF ParsingInv
<1>4. CASE UNCHANGED vars
  <2>1. UNCHANGED <<input, left, cfg, outcome>>
    BY <1>4 DEF vars
  <2>2. QED
    BY <2>1 DEF ParsingInv, Rest, Shape, Ending, Said, AllDocumented, Taken
<1>5. QED
  BY <1>2, <1>3, <1>4 DEF Next

LEMMA InvHolds == Spec => []ParsingInv
BY InitInv, NextInv, PTL DEF Spec

LEMMA InvTyped == ParsingInv => TypeOK
<1>1. Shaped(cfg) => DOMAIN cfg = DOMAIN Empty
  BY DEF Shaped, Empty
<1>2. QED
  BY <1>1 DEF ParsingInv, Shape, Ending, TypeOK

LEMMA InvParses == ParsingInv => OnlyV1GroupsAreMisread
<1> SUFFICES ASSUME ParsingInv, AllDocumented
             PROVE  /\ outcome \notin {"error", "panic"}
                    /\ outcome = "parsed" =>
                          \A g \in Gvrs :
                              DisabledBy(cfg, g) <=>
                                  \/ DisabledBy(Default, g)
                                  \/ \E i \in 1..Len(input) : Skips(input[i], g)
  BY DEF OnlyV1GroupsAreMisread, AllDocumented
<1>1. outcome \notin {"error", "panic"} /\ Said
  BY DEF ParsingInv
<1>2. ASSUME outcome = "parsed" PROVE Taken = Len(input)
  <2>1. left = <<>> /\ input \in Seq(Tokens)
    BY <1>2 DEF ParsingInv, Ending, Rest
  <2>2. Len(left) = 0 /\ Len(input) \in Nat
    BY <2>1, LenProperties
  <2>3. QED
    BY <2>2 DEF Taken
<1>3. QED
  BY <1>1, <1>2 DEF Said

-----------------------------------------------------------------------------
(* Theorems *)

(* Whatever the tokens, Parse leaves a configuration of three sets that    *)
(* still skips all that NewSkippedResourceConfig skips, also where it ends *)
(* in an error or a panic.                                                 *)
THEOREM TypeCorrect == Spec => []TypeOK
BY InvHolds, InvTyped, PTL

(* Of any list of tokens in the documented forms, whatever the names and   *)
(* however long the list, Parse makes exactly what they say, but of a      *)
(* <group>/<version> whose group begins with v1: that one it takes for a   *)
(* core kind.                                                              *)
THEOREM GrammarIsParsed == Spec => []OnlyV1GroupsAreMisread
BY InvHolds, InvParses, PTL
=============================================================================
