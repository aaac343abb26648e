---------------------------- MODULE Planning_proofs ----------------------------
(***************************************************************************)
(* Theorems about generateWorks, for all RDs, labels and resources.        *)
(***************************************************************************)
EXTENDS Planning, SequenceTheorems, WellFoundedInduction, TLAPS

-----------------------------------------------------------------------------
(* Induction and recursion *)

(* A set of numbers that holds 0 and with n also n + 1 holds all of them.  *)
LEMMA SetInduction ==
    ASSUME NEW S, 0 \in S, \A n \in Nat : n \in S => n + 1 \in S
    PROVE  Nat \subseteq S
<1>1. SUFFICES ASSUME ~(Nat \subseteq S) PROVE FALSE
  OBVIOUS
<1> DEFINE T == Nat \ S
<1>2. T \subseteq Nat /\ T # {}
  BY <1>1
<1>3. PICK n \in T : \A m \in T : ~(<<m, n>> \in OpToRel(<, Nat))
  BY <1>2, WFMin, NatLessThanWellFounded
<1>4. n \in Nat /\ n # 0
  OBVIOUS
<1>5. n - 1 \in Nat /\ n - 1 < n /\ n - 1 + 1 = n
  BY <1>4
<1>6. <<n - 1, n>> \in OpToRel(<, Nat)
  BY <1>4, <1>5 DEF OpToRel
<1>7. n - 1 \in S
  BY <1>3, <1>5, <1>6
<1>8. QED
  BY <1>5, <1>7

(* The functions on 0..N that begin with b and go on by S.                 *)
Chains(N, X, b, S) ==
    {g \in [0..N -> X] : g[0] = b /\ \A i \in 1..N : g[i] = S[<<g[i - 1], i>>]}

(* A function can be defined by its first value and by how each value      *)
(* follows from the one before.                                            *)
LEMMA Recursion ==
    ASSUME NEW N \in Nat, NEW X, NEW b \in X, NEW S \in [X \X (1..N) -> X]
    PROVE  \E g : g \in Chains(N, X, b, S)
<1> DEFINE Fits(g, n) == g[0] = b /\ \A i \in 1..n : g[i] = S[<<g[i - 1], i>>]
           D == {n \in Nat : n <= N => \E g \in [0..n -> X] : Fits(g, n)}
<1>1. 0 \in D
  <2> DEFINE g == [i \in 0..0 |-> b]
  <2>1. g \in [0..0 -> X] /\ Fits(g, 0)
    OBVIOUS
  <2>2. QED
    BY <2>1
<1>2. ASSUME NEW n \in Nat, n \in D PROVE n + 1 \in D
  <2>1. SUFFICES ASSUME n + 1 <= N PROVE \E g \in [0..n + 1 -> X] : Fits(g, n + 1)
    OBVIOUS
  <2>2. PICK g \in [0..n -> X] : Fits(g, n)
    BY <1>2, <2>1
  <2> DEFINE h == [i \in 0..n + 1 |-> IF i = n + 1 THEN S[<<g[n], n + 1>>] ELSE g[i]]
  <2>3. g[n] \in X /\ <<g[n], n + 1>> \in X \X (1..N)
    BY <2>1
  <2>4. h \in [0..n + 1 -> X]
    BY <2>3
  <2>5. h[0] = b
    BY <2>2
  <2>6. ASSUME NEW i \in 1..n + 1 PROVE h[i] = S[<<h[i - 1], i>>]
    <3>1. CASE i = n + 1
      <4>1. i - 1 = n /\ n \in 0..n + 1 /\ n # n + 1
        BY <3>1
      <4>2. h[n] = g[n] /\ h[n + 1] = S[<<g[n], n + 1>>]
        BY <4>1
      <4>3. QED
        BY <3>1, <4>1, <4>2
    <3>2. CASE i # n + 1
      <4>1. i \in 1..n /\ i - 1 \in 0..n
        BY <3>2
      <4>2. h[i] = g[i] /\ h[i - 1] = g[i - 1]
        BY <4>1
      <4>3. QED
        BY <2>2, <4>1, <4>2
    <3>3. QED
      BY <3>1, <3>2
  <2>7. QED
    BY <2>4, <2>5, <2>6
<1>3. N \in D
  <2> HIDE DEF D
  <2>1. QED
    BY <1>1, <1>2, SetInduction
<1>4. QED
  BY <1>3 DEF Chains

-----------------------------------------------------------------------------
(* Patches *)

(* Each operation of a patch is applied to the body the one before left.   *)
LEMMA StepsFollow ==
    ASSUME NEW b \in Bodies, NEW ops \in Seq(Overriders)
    PROVE  /\ Steps(b, ops) \in [0..Len(ops) -> Bodies]
           /\ Steps(b, ops)[0] = b
           /\ \A i \in 1..Len(ops) : Steps(b, ops)[i] = ApplyOp(Steps(b, ops)[i - 1], ops[i])
<1> DEFINE N == Len(ops)
           S == [x \in Bodies \X (1..N) |-> ApplyOp(x[1], ops[x[2]])]
           f == Steps(b, ops)
           Next0(g) == [i \in 0..N |-> IF i = 0 THEN b ELSE ApplyOp(g[i - 1], ops[i])]
<1>1. N \in Nat /\ \A i \in 1..N : ops[i] \in Overriders
  BY LenProperties, ElementOfSeq
<1>2. ASSUME NEW c \in Bodies, NEW o \in Overriders PROVE ApplyOp(c, o) \in Bodies
  BY DEF ApplyOp, Bodies, Overriders
<1>3. S \in [Bodies \X (1..N) -> Bodies]
  BY <1>1, <1>2
<1>4. PICK g : g \in Chains(N, Bodies, b, S)
  <2> HIDE DEF S, N, f, Next0
  <2>1. N \in Nat
    BY <1>1
  <2>2. b \in Bodies
    OBVIOUS
  <2>3. QED
    BY <1>3, <2>1, <2>2, Recursion
<1>5. ASSUME NEW i \in 1..N PROVE g[i] = ApplyOp(g[i - 1], ops[i])
  <2>1. i - 1 \in 0..N
    BY <1>1
  <2>2. <<g[i - 1], i>> \in Bodies \X (1..N)
    BY <1>4, <2>1 DEF Chains
  <2>3. QED
    BY <1>4, <2>2 DEF Chains
<1>6. g = Next0(g)
  BY <1>1, <1>4, <1>5 DEF Chains
<1>7. f = CHOOSE h : h = Next0(h)
  BY DEF Steps
<1>8. f = Next0(f)
  <2> HIDE DEF Next0, f
  <2>1. QED
    BY <1>6, <1>7
<1>9. f[0] = b /\ \A i \in 1..N : f[i] = ApplyOp(f[i - 1], ops[i])
  <2> HIDE DEF f
  <2>1. QED
    BY <1>1, <1>8
<1> DEFINE D == {n \in Nat : n <= N => f[n] \in Bodies}
<1>10. 0 \in D
  BY <1>9
<1>11. ASSUME NEW n \in Nat, n \in D PROVE n + 1 \in D
  <2> HIDE DEF f
  <2>1. SUFFICES ASSUME n + 1 <= N PROVE f[n + 1] \in Bodies
    OBVIOUS
  <2>2. f[n] \in Bodies /\ n + 1 \in 1..N /\ n + 1 - 1 = n
    BY <1>1, <1>11, <2>1
  <2>3. QED
    BY <1>1, <1>2, <1>9, <2>2
<1>12. \A n \in 0..N : f[n] \in Bodies
  <2>1. Nat \subseteq D
    <3> HIDE DEF D
    <3>1. QED
      BY <1>10, <1>11, SetInduction
  <2>2. QED
    BY <1>1, <2>1
<1>13. f \in [0..N -> Bodies]
  <2> HIDE DEF f
  <2>1. QED
    BY <1>8, <1>12
<1>14. QED
  BY <1>9, <1>13

(* A patched body is a body. *)
LEMMA OverrideType ==
    ASSUME NEW b \in Bodies, NEW ops \in Seq(Overriders)
    PROVE  Override(b, ops) \in Bodies
BY StepsFollow, LenProperties DEF Override

(* Patched changes the bodies of the manifests and nothing else.           *)
LEMMA PatchedAlike ==
    ASSUME NEW t \in Seq(Manifests), NEW ops \in Seq(Overriders)
    PROVE  /\ Patched(t, ops) \in Seq(Manifests)
           /\ Len(Patched(t, ops)) = Len(t)
           /\ \A i \in 1..Len(t) :
                 /\ Patched(t, ops)[i].obj = t[i].obj
                 /\ Patched(t, ops)[i].body = Override(t[i].body, ops)
<1> DEFINE P(i) == [t[i] EXCEPT !.body = Override(t[i].body, ops)]
<1>1. Len(t) \in Nat /\ \A i \in 1..Len(t) : t[i] \in Manifests
  BY LenProperties, ElementOfSeq
<1>2. ASSUME NEW i \in 1..Len(t)
      PROVE  P(i) \in Manifests /\ P(i).obj = t[i].obj /\ P(i).body = Override(t[i].body, ops)
  <2>1. t[i] \in Manifests /\ t[i].body \in Bodies
    BY <1>1 DEF Manifests
  <2>2. Override(t[i].body, ops) \in Bodies
    BY <2>1, OverrideType
  <2>3. QED
    BY <2>1, <2>2 DEF Manifests
<1>3. Patched(t, ops) = [i \in 1..Len(t) |-> P(i)]
  BY DEF Patched
<1> HIDE DEF P
<1>4. QED
  BY <1>1, <1>2, <1>3

-----------------------------------------------------------------------------
(* Templates *)

Distinct(s) == \A i, j \in 1..Len(s) : s[i].obj = s[j].obj => i = j

(* What is fetched is listed, and no resource is fetched twice.            *)
LEMMA FetchedListed ==
    ASSUME NEW selector, NEW h \in Seq(Manifests), Distinct(h)
    PROVE  Fetched(selector, h) \in Seq(Manifests) /\ Distinct(Fetched(selector, h))
<1> DEFINE Selected(t) ==
               IF selector.name # None
               THEN t.obj = selector
               ELSE selector.ns = None \/ t.obj.ns = selector.ns
           N == Len(h)
           Grow(s, i) == IF Selected(h[i]) THEN Append(s, h[i]) ELSE s
           S == [x \in Seq(Manifests) \X (1..N) |-> Grow(x[1], x[2])]
           Again(g) == [i \in 0..N |->
                           IF i = 0 THEN <<>>
                           ELSE IF Selected(h[i]) THEN Append(g[i - 1], h[i])
                           ELSE g[i - 1]]
           f == CHOOSE g : g = Again(g)
<1>1. N \in Nat /\ \A i \in 1..N : h[i] \in Manifests
  BY LenProperties, ElementOfSeq
<1>2. ASSUME NEW s \in Seq(Manifests), NEW i \in 1..N
      PROVE  Grow(s, i) \in Seq(Manifests)
  BY <1>1, AppendProperties
<1>3. S \in [Seq(Manifests) \X (1..N) -> Seq(Manifests)]
  <2> HIDE DEF Grow
  <2>1. QED
    BY <1>2
<1>4. PICK g : g \in Chains(N, Seq(Manifests), <<>>, S)
  <2> HIDE DEF S, N, f, Again
  <2>1. N \in Nat
    BY <1>1
  <2>2. <<>> \in Seq(Manifests)
    BY EmptySeq
  <2>3. QED
    BY <1>3, <2>1, <2>2, Recursion
<1>5. ASSUME NEW i \in 1..N PROVE g[i] = Grow(g[i - 1], i)
  <2> HIDE DEF Grow
  <2>1. i - 1 \in 0..N
    BY <1>1
  <2>2. <<g[i - 1], i>> \in Seq(Manifests) \X (1..N)
    BY <1>4, <2>1 DEF Chains
  <2>3. QED
    BY <1>4, <2>2 DEF Chains
<1>6. g = Again(g)
  <2>1. \A i \in 1..N : i # 0 /\ g[i] = Again(g)[i]
    BY <1>1, <1>5
  <2>2. 0 \in 0..N /\ Again(g)[0] = <<>> /\ g[0] = <<>>
    BY <1>1, <1>4 DEF Chains
  <2>3. \A i \in 0..N : i = 0 \/ i \in 1..N
    BY <1>1
  <2>4. DOMAIN g = 0..N /\ g = [i \in 0..N |-> g[i]]
    BY <1>4 DEF Chains
  <2>5. DOMAIN Again(g) = 0..N /\ Again(g) = [i \in 0..N |-> Again(g)[i]]
    OBVIOUS
  <2> HIDE DEF Again
  <2>6. \A i \in 0..N : g[i] = Again(g)[i]
    BY <2>1, <2>2, <2>3
  <2>7. QED
    BY <2>4, <2>5, <2>6
<1>7. Fetched(selector, h) = f[N]
  BY DEF Fetched
<1>8. f = Again(f)
  <2> HIDE DEF Again
  <2>1. QED
    BY <1>6
<1>9. f[0] = <<>> /\ \A i \in 1..N : f[i] = Grow(f[i - 1], i)
  <2> HIDE DEF f
  <2>1. f[0] = <<>>
    <3>1. 0 \in 0..N
      BY <1>1
    <3>2. Again(f)[0] = <<>>
      BY <3>1
    <3>3. QED
      BY <1>8, <3>2
  <2>2. ASSUME NEW i \in 1..N PROVE f[i] = Grow(f[i - 1], i)
    <3>1. i \in 0..N /\ i # 0
      BY <1>1
    <3>2. Again(f)[i] = Grow(f[i - 1], i)
      BY <3>1
    <3>3. QED
      BY <1>8, <3>2
  <2>3. QED
    BY <2>1, <2>2
<1> HIDE DEF f
<1> DEFINE FromFirst(s, n) ==
               /\ s \in Seq(Manifests)
               /\ \A m \in 1..Len(s) : \E j \in 1..n : s[m] = h[j]
               /\ Distinct(s)
           D == {n \in Nat : n <= N => FromFirst(f[n], n)}
<1>10. 0 \in D
  <2>1. FromFirst(<<>>, 0)
    BY EmptySeq DEF Distinct
  <2> HIDE DEF FromFirst
  <2>2. QED
    BY <1>9, <2>1
<1>11. ASSUME NEW n \in Nat, n \in D PROVE n + 1 \in D
  <2>1. SUFFICES ASSUME n + 1 <= N PROVE FromFirst(f[n + 1], n + 1)
    OBVIOUS
  <2>2. FromFirst(f[n], n) /\ n + 1 \in 1..N /\ n + 1 - 1 = n
    BY <1>1, <1>11, <2>1
  <2>3. f[n + 1] = IF Selected(h[n + 1]) THEN Append(f[n], h[n + 1]) ELSE f[n]
    BY <1>9, <2>2
  <2>4. CASE ~Selected(h[n + 1])
    <3>1. f[n + 1] = f[n]
      BY <2>3, <2>4
    <3>2. \A j \in 1..n : j \in 1..n + 1
      OBVIOUS
    <3> DEFINE s == f[n]
    <3>3. FromFirst(s, n) => FromFirst(s, n + 1)
      <4> HIDE DEF s
      <4>1. QED
        BY <3>2
    <3>4. QED
      BY <2>2, <3>1, <3>3
  <2>5. CASE Selected(h[n + 1])
    <3> DEFINE s == f[n]
               t == f[n + 1]
    <3>1. s \in Seq(Manifests) /\ h[n + 1] \in Manifests /\ t = Append(s, h[n + 1])
      BY <1>1, <2>2, <2>3, <2>5
    <3>2. /\ t \in Seq(Manifests) /\ Len(t) = Len(s) + 1 /\ Len(s) \in Nat
          /\ \A m \in 1..Len(s) : t[m] = s[m]
          /\ t[Len(s) + 1] = h[n + 1]
      BY <3>1, AppendProperties, LenProperties
    <3> HIDE DEF s, t
    <3>3. \A m \in 1..Len(s) : \E j \in 1..n : s[m] = h[j]
      BY <2>2 DEF s
    <3>4. ASSUME NEW m \in 1..Len(t) PROVE \E j \in 1..n + 1 : t[m] = h[j]
      BY <3>2, <3>3
    <3>5. ASSUME NEW m \in 1..Len(s) PROVE t[m].obj # t[Len(s) + 1].obj
      <4>1. PICK j \in 1..n : s[m] = h[j]
        BY <3>3
      <4>2. j # n + 1 /\ j \in 1..N /\ n + 1 \in 1..N
        BY <1>1, <2>2
      <4>3. QED
        BY <3>2, <4>1, <4>2 DEF Distinct
    <3>6. Distinct(s)
      BY <2>2 DEF s
    <3>7. Distinct(t)
      <4>1. SUFFICES ASSUME NEW i \in 1..Len(t), NEW j \in 1..Len(t), t[i].obj = t[j].obj
                     PROVE  i = j
        BY DEF Distinct
      <4>2. (i \in 1..Len(s) \/ i = Len(s) + 1) /\ (j \in 1..Len(s) \/ j = Len(s) + 1)
        BY <3>2
      <4>3. QED
        BY <3>2, <3>5, <3>6, <4>1, <4>2 DEF Distinct
    <3>8. QED
      BY <3>2, <3>4, <3>7 DEF t
  <2>6. QED
    BY <2>4, <2>5
<1>12. FromFirst(f[N], N)
  <2>1. Nat \subseteq D
    <3> HIDE DEF D
    <3>1. QED
      BY <1>10, <1>11, SetInduction
  <2>2. QED
    BY <1>1, <2>1
<1>13. QED
  BY <1>7, <1>12

-----------------------------------------------------------------------------
(* What a rule's Workload says of an object *)

(* s has manifests of resources of t only.                                 *)
Of(s, t) == \A m \in 1..Len(s) : \E j \in 1..Len(t) : s[m].obj = t[j].obj

(* s begins with q. *)
Begins(s, q) == Len(q) <= Len(s) /\ \A j \in 1..Len(q) : s[j] = q[j]

LEMMA BeginsOn ==
    ASSUME NEW s \in Seq(Manifests), NEW u \in Seq(Manifests), NEW q \in Seq(Manifests),
           s = <<>> => u = q, s # <<>> => Begins(s, q)
    PROVE  Begins(s \o u, q)
<1>1. /\ Len(s) \in Nat /\ Len(u) \in Nat /\ Len(q) \in Nat
      /\ Len(s \o u) = Len(s) + Len(u)
      /\ \A j \in 1..Len(s) + Len(u) :
            (s \o u)[j] = IF j <= Len(s) THEN s[j] ELSE u[j - Len(s)]
  BY LenProperties, ConcatProperties
<1>2. CASE s = <<>>
  <2>1. s \o u = q
    BY <1>2, ConcatEmptySeq
  <2>2. QED
    BY <1>1, <2>1 DEF Begins
<1>3. CASE s # <<>>
  BY <1>1, <1>3 DEF Begins
<1>4. QED
  BY <1>2, <1>3

(* The slice arrObj begins with what the first rule makes of the templates *)
(* and ends, after a rule, with what that rule makes of them; in between   *)
(* it has manifests of the same resources.                                 *)
LEMMA AccumulatedEnds ==
    ASSUME NEW r, NEW t \in Seq(Manifests), NEW k \in Nat \ {0},
           \A i \in 1..k : r.rules[i].patch \in Seq(Overriders)
    PROVE  /\ \E s \in Seq(Manifests) :
                 Of(s, t) /\ Accumulated(r, t, k) = s \o Patched(t, r.rules[k].patch)
           /\ Accumulated(r, t, k) \in Seq(Manifests)
           /\ Of(Accumulated(r, t, k), t)
           /\ Begins(Accumulated(r, t, k), Patched(t, r.rules[1].patch))
<1> DEFINE X == Seq(Manifests)
           Q == [i \in 1..k |-> Patched(t, r.rules[i].patch)]
           S == [x \in X \X (1..k) |-> x[1] \o Q[x[2]]]
           Again(g) == [i \in 0..k |-> IF i = 0 THEN <<>> ELSE g[i - 1] \o Patched(t, r.rules[i].patch)]
           f == CHOOSE g : g = Again(g)
<1>1. /\ Len(t) \in Nat
      /\ \A i \in 1..k : /\ Q[i] \in X /\ Len(Q[i]) = Len(t)
                         /\ \A j \in 1..Len(t) : Q[i][j].obj = t[j].obj
  BY LenProperties, PatchedAlike
<1>2. Accumulated(r, t, k) = f[k]
  BY DEF Accumulated
<1>17. \A i \in 1..k : Q[i] = Patched(t, r.rules[i].patch)
  OBVIOUS
<1> HIDE DEF Q
<1>3. \A s \in X, i \in 1..k : s \o Q[i] \in X
  BY <1>1, ConcatProperties
<1>4. S \in [X \X (1..k) -> X]
  BY <1>3
<1>5. PICK g : g \in Chains(k, X, <<>>, S)
  <2> HIDE DEF S, f, Again, X
  <2>1. k \in Nat
    OBVIOUS
  <2>2. <<>> \in X
    BY EmptySeq DEF X
  <2>3. QED
    BY <1>4, <2>1, <2>2, Recursion
<1> HIDE DEF X
<1>6. ASSUME NEW i \in 1..k PROVE g[i] = g[i - 1] \o Q[i]
  <2>1. i - 1 \in 0..k
    OBVIOUS
  <2>2. <<g[i - 1], i>> \in X \X (1..k)
    BY <1>5, <2>1 DEF Chains
  <2>3. QED
    BY <1>5, <2>2 DEF Chains
<1>7. g = Again(g)
  <2>1. ASSUME NEW i \in 1..k PROVE g[i] = Again(g)[i]
    <3>1. i \in 0..k /\ i # 0
      OBVIOUS
    <3>2. Again(g)[i] = g[i - 1] \o Patched(t, r.rules[i].patch)
      BY <3>1
    <3>3. QED
      BY <1>6, <1>17, <3>2
  <2>2. 0 \in 0..k /\ Again(g)[0] = <<>> /\ g[0] = <<>>
    BY <1>5 DEF Chains
  <2>3. \A i \in 0..k : i = 0 \/ i \in 1..k
    OBVIOUS
  <2>4. DOMAIN g = 0..k /\ g = [i \in 0..k |-> g[i]]
    BY <1>5 DEF Chains
  <2>5. DOMAIN Again(g) = 0..k /\ Again(g) = [i \in 0..k |-> Again(g)[i]]
    OBVIOUS
  <2> HIDE DEF Again
  <2>6. \A i \in 0..k : g[i] = Again(g)[i]
    BY <2>1, <2>2, <2>3
  <2>7. QED
    BY <2>4, <2>5, <2>6
<1>8. f = Again(f)
  <2> HIDE DEF Again
  <2>1. QED
    BY <1>7
<1>9. f[0] = <<>> /\ \A i \in 1..k : f[i] = f[i - 1] \o Q[i]
  <2> HIDE DEF f
  <2>1. f[0] = <<>>
    <3>1. 0 \in 0..k /\ Again(f)[0] = <<>>
      OBVIOUS
    <3>2. QED
      BY <1>8, <3>1
  <2>2. ASSUME NEW i \in 1..k PROVE f[i] = f[i - 1] \o Q[i]
    <3>1. i \in 0..k /\ i # 0
      OBVIOUS
    <3>2. Again(f)[i] = f[i - 1] \o Q[i]
      BY <1>17, <3>1
    <3>3. QED
      BY <1>8, <3>2
  <2>3. QED
    BY <2>1, <2>2
<1> HIDE DEF f
<1> DEFINE D == {n \in Nat : n <= k => f[n] \in X /\ Of(f[n], t)}
<1>10. 0 \in D
  <2>1. <<>> \in X /\ Of(<<>>, t)
    BY EmptySeq DEF X, Of
  <2>2. QED
    BY <1>9, <2>1
<1>11. ASSUME NEW n \in Nat, n \in D PROVE n + 1 \in D
  <2>1. SUFFICES ASSUME n + 1 <= k PROVE f[n + 1] \in X /\ Of(f[n + 1], t)
    OBVIOUS
  <2>2. f[n] \in X /\ Of(f[n], t) /\ n + 1 \in 1..k /\ n + 1 - 1 = n
    BY <1>11, <2>1
  <2>9. f[n + 1] = f[n] \o Q[n + 1]
    <3>1. PICK i : i = n + 1
      OBVIOUS
    <3>2. i \in 1..k /\ i - 1 = n
      BY <2>2, <3>1
    <3>3. f[i] = f[i - 1] \o Q[i]
      BY <1>9, <3>2
    <3>4. QED
      BY <3>1, <3>2, <3>3
  <2>3. f[n + 1] = f[n] \o Q[n + 1] /\ f[n + 1] \in X
    BY <1>3, <2>2, <2>9
  <2> DEFINE s == f[n]
             q == Q[n + 1]
  <2>4. /\ s \in Seq(Manifests) /\ q \in Seq(Manifests) /\ Len(q) = Len(t)
        /\ Len(s) \in Nat
        /\ \A j \in 1..Len(t) : q[j].obj = t[j].obj
    BY <1>1, <2>2, LenProperties DEF X
  <2> HIDE DEF s, q
  <2>5. /\ Len(s \o q) = Len(s) + Len(t)
        /\ \A m \in 1..Len(s) + Len(t) :
              (s \o q)[m] = IF m <= Len(s) THEN s[m] ELSE q[m - Len(s)]
    <3>1. Len(s \o q) = Len(s) + Len(q) /\ \A m \in 1..Len(s) + Len(q) :
              (s \o q)[m] = IF m <= Len(s) THEN s[m] ELSE q[m - Len(s)]
      BY <2>4, ConcatProperties
    <3>2. QED
      BY <2>4, <3>1
  <2>6. Of(s, t)
    BY <2>2 DEF s
  <2>7. Of(s \o q, t)
    <3>1. SUFFICES ASSUME NEW m \in 1..Len(s) + Len(t)
                   PROVE  \E j \in 1..Len(t) : (s \o q)[m].obj = t[j].obj
      BY <2>5 DEF Of
    <3>2. CASE m <= Len(s)
      BY <2>4, <2>5, <2>6, <3>2 DEF Of
    <3>3. CASE ~(m <= Len(s))
      <4>1. m - Len(s) \in 1..Len(t)
        BY <1>1, <2>4, <3>3
      <4>2. QED
        BY <2>4, <2>5, <3>3, <4>1
    <3>4. QED
      BY <3>2, <3>3
  <2>8. QED
    BY <2>3, <2>7 DEF s, q
<1>12. Nat \subseteq D
  <2> HIDE DEF D
  <2>1. QED
    BY <1>10, <1>11, SetInduction
<1>13. k - 1 \in Nat /\ k - 1 <= k /\ k \in 1..k
  OBVIOUS
<1>14. f[k - 1] \in X /\ Of(f[k - 1], t)
  BY <1>12, <1>13
<1>18. f[k] \in X /\ Of(f[k], t)
  BY <1>12, <1>13
<1> DEFINE B == {n \in Nat : n < k => Begins(f[n + 1], Q[1])}
<1>19. ASSUME NEW n \in Nat, n < k, n = 0 \/ Begins(f[n], Q[1])
       PROVE  Begins(f[n + 1], Q[1])
  <2> DEFINE s == f[n]
             q == Q[n + 1]
  <2>1. f[n] \in X /\ n <= k
    BY <1>12, <1>19
  <2>2. s \in Seq(Manifests) /\ q \in Seq(Manifests) /\ Q[1] \in Seq(Manifests)
        /\ Len(q) = Len(t) /\ Len(Q[1]) = Len(t)
    BY <1>1, <1>19, <2>1 DEF X
  <2>3. f[n + 1] = s \o q
    <3>1. PICK i : i = n + 1
      OBVIOUS
    <3>2. i \in 1..k /\ i - 1 = n
      BY <1>19, <3>1
    <3>3. f[i] = f[i - 1] \o Q[i]
      BY <1>9, <3>2
    <3>4. QED
      BY <3>1, <3>2, <3>3
  <2>4. n = 0 => s = <<>> /\ q = Q[1]
    BY <1>9
  <2>5. n # 0 => Begins(s, Q[1])
    BY <1>19
  <2> HIDE DEF s, q
  <2>6. CASE n = 0
    <3>1. s = <<>> /\ q = Q[1]
      BY <2>4, <2>6
    <3>2. Begins(s \o q, Q[1])
      BY <2>2, <3>1, BeginsOn
    <3>3. QED
      BY <2>3, <3>2
  <2>7. CASE n # 0
    <3>1. ASSUME s = <<>> PROVE q = Q[1]
      <4>1. Len(t) <= 0 /\ Len(t) \in Nat
        BY <1>1, <2>2, <2>5, <2>7, <3>1 DEF Begins
      <4>2. QED
        BY <2>2, <4>1, EmptySeq
    <3>2. Begins(s \o q, Q[1])
      BY <2>2, <2>5, <2>7, <3>1, BeginsOn
    <3>3. QED
      BY <2>3, <3>2
  <2>8. QED
    BY <2>6, <2>7
<1>20. Nat \subseteq B
  <2>1. 0 \in B
    BY <1>19
  <2>2. ASSUME NEW n \in Nat, n \in B PROVE n + 1 \in B
    <3>1. SUFFICES ASSUME n + 1 < k PROVE Begins(f[n + 1 + 1], Q[1])
      OBVIOUS
    <3>2. n + 1 \in Nat /\ Begins(f[n + 1], Q[1])
      BY <2>2, <3>1
    <3>3. QED
      BY <1>19, <3>1, <3>2
  <2> HIDE DEF B
  <2>3. QED
    BY <2>1, <2>2, SetInduction
<1>21. Begins(f[k], Patched(t, r.rules[1].patch))
  <2>1. PICK n : n = k - 1
    OBVIOUS
  <2>2. n \in Nat /\ n < k /\ n + 1 = k
    BY <2>1
  <2>3. Begins(f[n + 1], Q[1])
    BY <1>20, <2>2
  <2>4. QED
    BY <1>17, <2>2, <2>3
<1>15. Accumulated(r, t, k) = f[k - 1] \o Q[k]
  BY <1>2, <1>9, <1>13
<1>16. QED
  BY <1>2, <1>13, <1>14, <1>15, <1>17, <1>18, <1>21 DEF X

(* Of manifests of distinct resources each prevails.                       *)
LEMMA DistinctPrevail ==
    ASSUME NEW t \in Seq(Manifests), Distinct(t), NEW o
    PROVE  Prevailing(t, o) = Bodied(t, o) /\ LegacyPrevailing(t, o) = Bodied(t, o)
<1>1. Len(t) \in Nat
  BY LenProperties
<1>2. ASSUME NEW i \in 1..Len(t), NEW n \in 1..Len(t), t[i].obj = o, t[n].obj = o
      PROVE  n = i /\ n <= i
  BY <1>1, <1>2 DEF Distinct
<1>3. QED
  BY <1>2 DEF Prevailing, LegacyPrevailing, Bodied

(* Where the last one prevails, it is one the last rule itself made.       *)
LEMMA LastPrevail ==
    ASSUME NEW s \in Seq(Manifests), NEW t \in Seq(Manifests), Distinct(t), Of(s, t),
           NEW ops \in Seq(Overriders), NEW o
    PROVE  LegacyPrevailing(s \o Patched(t, ops), o) = {Override(b, ops) : b \in Bodied(t, o)}
<1> DEFINE q == Patched(t, ops)
           N == Len(s)
           a == s \o q
           At0 == {i \in 1..Len(a) : a[i].obj = o}
<1>1. /\ Len(t) \in Nat /\ N \in Nat
      /\ q \in Seq(Manifests) /\ Len(q) = Len(t)
      /\ \A i \in 1..Len(t) : q[i].obj = t[i].obj /\ q[i].body = Override(t[i].body, ops)
  BY LenProperties, PatchedAlike
<1> HIDE DEF q
<1>2. /\ Len(a) = N + Len(t)
      /\ \A m \in 1..N + Len(t) : a[m] = IF m <= N THEN s[m] ELSE q[m - N]
  <2>0. q \in Seq(Manifests)
    BY <1>1
  <2>1. /\ Len(a) = N + Len(q)
        /\ \A m \in 1..N + Len(q) : a[m] = IF m <= N THEN s[m] ELSE q[m - N]
    BY <2>0, ConcatProperties
  <2>2. QED
    BY <1>1, <2>1
<1> HIDE DEF a
<1>3. LegacyPrevailing(a, o) = {a[i].body : i \in {j \in At0 : \A n \in At0 : n <= j}}
  BY DEF LegacyPrevailing
<1>4. \A i \in 1..Len(t) : N + i \in 1..N + Len(t) /\ a[N + i] = q[i]
  <2>1. ASSUME NEW i \in 1..Len(t) PROVE N + i \in 1..N + Len(t) /\ a[N + i] = q[i]
    <3>1. N + i \in 1..N + Len(t) /\ ~(N + i <= N) /\ N + i - N = i
      BY <1>1
    <3>2. QED
      BY <1>2, <3>1
  <2>2. QED
    BY <2>1
<1>5. ASSUME NEW j \in 1..Len(t), t[j].obj = o PROVE {i \in At0 : \A n \in At0 : n <= i} = {N + j}
  <2>1. N + j \in At0
    BY <1>1, <1>2, <1>4, <1>5
  <2>2. ASSUME NEW n \in At0 PROVE n <= N + j
    <3>1. n \in 1..N + Len(t) /\ a[n].obj = o
      BY <1>2
    <3>2. CASE n <= N
      BY <1>1, <3>1, <3>2
    <3>3. CASE ~(n <= N)
      <4>1. n - N \in 1..Len(t)
        BY <1>1, <3>1, <3>3
      <4>2. t[n - N].obj = o
        BY <1>1, <1>2, <3>1, <3>3, <4>1
      <4>3. n - N = j
        BY <1>5, <4>1, <4>2 DEF Distinct
      <4>4. QED
        BY <1>1, <3>1, <4>3
    <3>4. QED
      BY <3>2, <3>3
  <2>3. \A i \in At0 : i \in Int
    BY <1>1, <1>2
  <2> HIDE DEF At0
  <2>4. N + j \in Int
    BY <1>1
  <2>5. QED
    BY <2>1, <2>2, <2>3, <2>4
<1>6. CASE \E j \in 1..Len(t) : t[j].obj = o
  <2>1. PICK j \in 1..Len(t) : t[j].obj = o
    BY <1>6
  <2>2. LegacyPrevailing(a, o) = {a[N + j].body}
    <3> HIDE DEF At0
    <3>1. QED
      BY <1>3, <1>5, <2>1
  <2>3. a[N + j].body = Override(t[j].body, ops)
    BY <1>1, <1>4
  <2>4. Bodied(t, o) = {t[j].body}
    BY <2>1 DEF Bodied, Distinct
  <2>5. QED
    BY <2>2, <2>3, <2>4 DEF a, q
<1>7. CASE \A j \in 1..Len(t) : t[j].obj # o
  <2>1. ASSUME NEW m \in 1..N + Len(t) PROVE a[m].obj # o
    <3>1. CASE m <= N
      <4>1. m \in 1..N
        BY <1>1, <3>1
      <4>2. QED
        BY <1>2, <1>7, <3>1, <4>1 DEF Of
    <3>2. CASE ~(m <= N)
      <4>1. m - N \in 1..Len(t)
        BY <1>1, <3>2
      <4>2. QED
        BY <1>1, <1>2, <1>7, <3>2, <4>1
    <3>3. QED
      BY <3>1, <3>2
  <2>2. At0 = {}
    BY <1>2, <2>1
  <2>3. LegacyPrevailing(a, o) = {}
    <3> HIDE DEF At0
    <3>1. QED
      BY <1>3, <2>2
  <2>4. Bodied(t, o) = {}
    BY <1>7 DEF Bodied
  <2>5. QED
    BY <2>3, <2>4 DEF a, q
<1>8. QED
  BY <1>6, <1>7

(* Where the first one prevails, it is one the first rule made. *)
LEMMA FirstPrevail ==
    ASSUME NEW a \in Seq(Manifests), NEW t \in Seq(Manifests), Distinct(t), Of(a, t),
           NEW ops \in Seq(Overriders), Begins(a, Patched(t, ops)), NEW o
    PROVE  Prevailing(a, o) = {Override(b, ops) : b \in Bodied(t, o)}
<1> DEFINE At0 == {i \in 1..Len(a) : a[i].obj = o}
<1>1. /\ Len(t) \in Nat /\ Len(a) \in Nat /\ Len(t) <= Len(a)
      /\ \A i \in 1..Len(t) : /\ i \in 1..Len(a)
                              /\ a[i].obj = t[i].obj
                              /\ a[i].body = Override(t[i].body, ops)
  BY LenProperties, PatchedAlike DEF Begins
<1>2. Prevailing(a, o) = {a[i].body : i \in {j \in At0 : \A n \in At0 : j <= n}}
  BY DEF Prevailing
<1>3. ASSUME NEW j \in 1..Len(t), t[j].obj = o
      PROVE  {i \in At0 : \A n \in At0 : i <= n} = {j}
  <2>1. j \in At0 /\ j \in Int
    BY <1>1, <1>3
  <2>4. \A n \in At0 : n \in Int
    BY <1>1
  <2>2. ASSUME NEW n \in At0 PROVE j <= n
    <3>1. CASE n \in 1..Len(t)
      BY <1>1, <1>3, <3>1 DEF Distinct
    <3>2. CASE n \notin 1..Len(t)
      BY <1>1, <3>2
    <3>3. QED
      BY <3>1, <3>2
  <2>5. ASSUME NEW i \in At0, \A n \in At0 : i <= n PROVE i = j
    <3> HIDE DEF At0
    <3>1. i <= j /\ j <= i /\ i \in Int
      BY <2>1, <2>2, <2>4, <2>5
    <3>2. QED
      BY <2>1, <3>1
  <2> HIDE DEF At0
  <2>3. QED
    BY <2>1, <2>2, <2>5
<1>4. CASE \E j \in 1..Len(t) : t[j].obj = o
  <2>1. PICK j \in 1..Len(t) : t[j].obj = o
    BY <1>4
  <2>2. Prevailing(a, o) = {a[j].body}
    <3> HIDE DEF At0
    <3>1. QED
      BY <1>2, <1>3, <2>1
  <2>3. Bodied(t, o) = {t[j].body}
    BY <2>1 DEF Bodied, Distinct
  <2>4. QED
    BY <1>1, <2>2, <2>3
<1>5. CASE \A j \in 1..Len(t) : t[j].obj # o
  <2>1. At0 = {}
    BY <1>5 DEF Of
  <2>2. Prevailing(a, o) = {}
    <3> HIDE DEF At0
    <3>1. QED
      BY <1>2, <2>1
  <2>3. Bodied(t, o) = {}
    BY <1>5 DEF Bodied
  <2>4. QED
    BY <2>2, <2>3
<1>6. QED
  BY <1>4, <1>5

-----------------------------------------------------------------------------
(* The Workloads of an RD *)

(* An RD as the API server admits it, and the labels of Clusters.          *)
Admitted(r) ==
    /\ r.placement \in Affinities \cup {None}
    /\ Len(r.rules) \in Nat
    /\ \A k \in 1..Len(r.rules) : IsRule(r.rules[k])

LEMMA Inputs ==
    /\ \A r \in Rds : Admitted(r)
    /\ \A l \in Labellings : DOMAIN l \subseteq Clusters
    /\ \A h \in Hosts : h \in Seq(Manifests) /\ Distinct(h)
BY PlanningConstants DEF Admitted, Distinct

(* A rule targets member clusters among the placed ones.                   *)
LEMMA TargetsPlaced ==
    ASSUME NEW r, Admitted(r), NEW l, DOMAIN l \subseteq Clusters
    PROVE  /\ Placed(r, l) \subseteq Clusters
           /\ \A k : Targeted(r, k, l) \subseteq Placed(r, l)
<1>1. \A s : Matching(s, l) \subseteq Clusters
  BY DEF Matching
<1>2. ASSUME r.placement # None PROVE Chosen(r.placement, l) \subseteq Clusters
  BY <1>1, <1>2 DEF Admitted, Affinities, Chosen
<1>3. QED
  BY <1>2 DEF Placed, Targeted

LEMMA RulePatches ==
    ASSUME NEW r, Admitted(r), NEW k \in 1..Len(r.rules)
    PROVE  k \in Nat \ {0} /\ \A i \in 1..k : r.rules[i].patch \in Seq(Overriders)
BY DEF Admitted, IsRule

(* A list of Workloads, and one more if it has clusters.                   *)
Then(a, rest, e) == a \o (IF rest = {} THEN <<>> ELSE <<e>>)

Numbered(a, n) == n \in Nat /\ a = [k \in 1..n |-> a[k]]

LEMMA ThenListed ==
    ASSUME NEW n, NEW a, Numbered(a, n), NEW rest, NEW e
    PROVE  /\ Len(Then(a, rest, e)) = IF rest = {} THEN n ELSE n + 1
           /\ \A k \in 1..n : Then(a, rest, e)[k] = a[k]
           /\ rest # {} => Then(a, rest, e)[n + 1] = e
<1> DEFINE T == {a[k] : k \in 1..n} \cup {e}
<1>6. n \in Nat
  BY DEF Numbered
<1>1. a \in Seq(T) /\ Len(a) = n /\ <<e>> \in Seq(T)
  BY DEF Numbered
<1>2. Len(<<e>>) = 1 /\ <<e>>[1] = e
  OBVIOUS
<1> HIDE DEF T
<1>3. CASE rest = {}
  <2>1. a \o <<>> = a
    BY <1>1, ConcatEmptySeq
  <2>2. QED
    BY <1>1, <1>3, <2>1 DEF Then
<1>4. CASE rest # {}
  <2> DEFINE w == a \o <<e>>
  <2>1. Then(a, rest, e) = w
    BY <1>4 DEF Then
  <2>2. /\ Len(w) = n + 1
        /\ \A i \in 1..n + 1 : w[i] = IF i <= n THEN a[i] ELSE <<e>>[i - n]
    <3>1. /\ Len(w) = Len(a) + Len(<<e>>)
          /\ \A i \in 1..Len(a) + Len(<<e>>) :
                w[i] = IF i <= Len(a) THEN a[i] ELSE <<e>>[i - Len(a)]
      BY <1>1, ConcatProperties
    <3>2. QED
      BY <1>1, <1>2, <3>1
  <2> HIDE DEF w
  <2>3. ASSUME NEW k \in 1..n PROVE w[k] = a[k]
    <3>1. k \in 1..n + 1 /\ k <= n
      BY <1>6
    <3>2. QED
      BY <2>2, <3>1
  <2>4. w[n + 1] = e
    <3>1. PICK i : i = n + 1
      OBVIOUS
    <3>2. i \in 1..n + 1 /\ ~(i <= n) /\ i - n = 1
      BY <1>6, <3>1
    <3>3. w[i] = <<e>>[i - n]
      BY <2>2, <3>2
    <3>4. QED
      BY <1>2, <3>1, <3>2, <3>3
  <2>5. QED
    BY <1>4, <2>1, <2>2, <2>3, <2>4
<1>5. QED
  BY <1>3, <1>4

(* The Workloads of a list, or of its first n, that name cluster c. *)
NamingOf(list, n, c) == {list[k] : k \in {j \in 1..n : c \in list[j].clusters}}

Naming(list, c) == {list[i] : i \in {n \in 1..Len(list) : c \in list[n].clusters}}

LEMMA ThenNames ==
    ASSUME NEW n, NEW a, Numbered(a, n), NEW rest, NEW e, e.clusters = rest, NEW c
    PROVE  Naming(Then(a, rest, e), c) =
              NamingOf(a, n, c) \cup (IF c \in rest THEN {e} ELSE {})
<1> DEFINE w == Then(a, rest, e)
           own == NamingOf(a, n, c)
           last == IF c \in rest THEN {e} ELSE {}
<1>1. /\ Len(w) = IF rest = {} THEN n ELSE n + 1
      /\ \A k \in 1..n : w[k] = a[k]
      /\ rest # {} => w[n + 1] = e
  BY ThenListed
<1>2. n \in Nat
  BY DEF Numbered
<1>3. \A x : x \in last <=> c \in rest /\ x = e
  OBVIOUS
<1> HIDE DEF w, last
<1>4. ASSUME NEW i \in 1..Len(w), c \in w[i].clusters PROVE w[i] \in own \cup last
  <2>1. CASE i \in 1..n
    BY <1>1, <1>4, <2>1 DEF NamingOf
  <2>2. CASE i \notin 1..n
    <3>1. rest # {} /\ i = n + 1
      BY <1>1, <1>2, <2>2
    <3>2. w[i] = e
      BY <1>1, <3>1
    <3>3. QED
      BY <1>3, <1>4, <3>2
  <2>3. QED
    BY <2>1, <2>2
<1>5. ASSUME NEW k \in 1..n, c \in a[k].clusters
      PROVE  \E i \in 1..Len(w) : c \in w[i].clusters /\ w[i] = a[k]
  <2>1. k \in 1..Len(w)
    BY <1>1, <1>2
  <2>2. QED
    BY <1>1, <1>5, <2>1
<1>6. ASSUME c \in rest
      PROVE  \E i \in 1..Len(w) : c \in w[i].clusters /\ w[i] = e
  <2>1. PICK i : i = n + 1
    OBVIOUS
  <2>2. i \in 1..Len(w) /\ w[i] = e
    BY <1>1, <1>2, <1>6, <2>1
  <2>3. QED
    BY <1>6, <2>2
<1>7. Naming(w, c) = own \cup last
  BY <1>3, <1>4, <1>5, <1>6 DEF Naming, NamingOf
<1>8. QED
  BY <1>7 DEF w, last

LEMMA NamingGives ==
    ASSUME NEW list, NEW c, NEW o
    PROVE  /\ Given(list, c, o) = UNION {Prevailing(w.manifests, o) : w \in Naming(list, c)}
           /\ LegacyGiven(list, c, o) =
                 UNION {LegacyPrevailing(w.manifests, o) : w \in Naming(list, c)}
BY DEF Given, LegacyGiven, Naming

(* What the Workload of rule k gives one of its clusters: what the first   *)
(* rule makes of the resources, or, applied as WorkReconciler did, what    *)
(* rule k does.                                                            *)
RuleGives(r, k, t, o) == {Override(b, r.rules[k].patch) : b \in Bodied(t, o)}

LEMMA RulePrevails ==
    ASSUME NEW r, Admitted(r), NEW t \in Seq(Manifests), Distinct(t),
           NEW k \in 1..Len(r.rules), NEW o
    PROVE  /\ Accumulated(r, t, k) \in Seq(Manifests)
           /\ Prevailing(Accumulated(r, t, k), o) = RuleGives(r, 1, t, o)
           /\ LegacyPrevailing(Accumulated(r, t, k), o) = RuleGives(r, k, t, o)
<1> DEFINE ops == r.rules[k].patch
           ops1 == r.rules[1].patch
           arr == Accumulated(r, t, k)
<1>1. k \in Nat \ {0} /\ k \in 1..k /\ 1 \in 1..k
      /\ \A i \in 1..k : r.rules[i].patch \in Seq(Overriders)
  BY RulePatches
<1>2. ops \in Seq(Overriders) /\ ops1 \in Seq(Overriders)
  BY <1>1
<1>3. /\ \E s \in Seq(Manifests) : Of(s, t) /\ arr = s \o Patched(t, ops)
      /\ arr \in Seq(Manifests)
      /\ Of(arr, t)
      /\ Begins(arr, Patched(t, ops1))
  BY <1>1, AccumulatedEnds
<1> HIDE DEF ops, ops1, arr
<1>4. Prevailing(arr, o) = {Override(b, ops1) : b \in Bodied(t, o)}
  <2>1. arr \in Seq(Manifests) /\ Of(arr, t) /\ Begins(arr, Patched(t, ops1))
    BY <1>3
  <2>2. QED
    BY <1>2, <2>1, FirstPrevail
<1>5. PICK s \in Seq(Manifests) : Of(s, t) /\ arr = s \o Patched(t, ops)
  BY <1>3
<1>6. LegacyPrevailing(s \o Patched(t, ops), o) = {Override(b, ops) : b \in Bodied(t, o)}
  BY <1>2, <1>5, LastPrevail
<1>7. QED
  BY <1>3, <1>4, <1>5, <1>6 DEF ops, ops1, arr, RuleGives

(* What the Workloads of an RD give a cluster: the Workload of a rule that *)
(* targets it what the first rule makes of the resources, that of the      *)
(* residue the resources.                                                  *)
LEMMA WorksGive ==
    ASSUME NEW r, Admitted(r), NEW l, NEW t \in Seq(Manifests), Distinct(t),
           NEW c, NEW o
    PROVE  Given(GenerateWorks(r, l, t), c, o) =
              (IF Ruling(r, l, c) = {} THEN {} ELSE RuleGives(r, 1, t, o))
              \cup (IF c \in Residue(r, l) THEN Bodied(t, o) ELSE {})
<1> DEFINE n == Len(r.rules)
           a == [k \in 1..n |-> RuleWork(r, l, t, k)]
           e == ResidueWork(r, l, t)
           own == NamingOf(a, n, c)
           last == IF c \in Residue(r, l) THEN {e} ELSE {}
<1>1. n \in Nat
  BY DEF Admitted
<1>2. e.clusters = Residue(r, l) /\ e.manifests = t
  BY DEF ResidueWork, Work
<1>3. GenerateWorks(r, l, t) = Then(a, Residue(r, l), e)
  BY DEF GenerateWorks, Then
<1>4. ASSUME NEW k \in 1..n
      PROVE  /\ a[k].clusters = Targeted(r, k, l)
             /\ Prevailing(a[k].manifests, o) = RuleGives(r, 1, t, o)
  <2>1. a[k] = Work(r, r.rules[k].id, Targeted(r, k, l), Accumulated(r, t, k))
    BY DEF RuleWork
  <2>2. a[k].clusters = Targeted(r, k, l) /\ a[k].manifests = Accumulated(r, t, k)
    BY <2>1 DEF Work
  <2>3. QED
    BY <2>2, RulePrevails
<1>5. Numbered(a, n)
  BY <1>1 DEF Numbered
<1>6. Ruling(r, l, c) = {j \in 1..n : c \in Targeted(r, j, l)}
  BY DEF Ruling
<1> HIDE DEF a, e, n
<1>7. Naming(Then(a, Residue(r, l), e), c) = own \cup last
  <2>1. e.clusters = Residue(r, l)
    BY <1>2
  <2>2. QED
    BY <1>5, <2>1, ThenNames
<1>8. /\ own = {} <=> Ruling(r, l, c) = {}
      /\ \A w \in own : Prevailing(w.manifests, o) = RuleGives(r, 1, t, o)
  BY <1>4, <1>6 DEF NamingOf
<1>9. Prevailing(e.manifests, o) = Bodied(t, o)
  BY <1>2, DistinctPrevail
<1>10. Given(Then(a, Residue(r, l), e), c, o) =
           UNION {Prevailing(w.manifests, o) : w \in own \cup last}
  BY <1>7, NamingGives
<1> HIDE DEF own
<1>11. UNION {Prevailing(w.manifests, o) : w \in own \cup last} =
           (IF Ruling(r, l, c) = {} THEN {} ELSE RuleGives(r, 1, t, o))
           \cup (IF c \in Residue(r, l) THEN Bodied(t, o) ELSE {})
  BY <1>8, <1>9
<1>12. QED
  BY <1>3, <1>10, <1>11

(* The Workloads give a cluster what the first rule asks for. *)
LEMMA WorksAsked ==
    ASSUME NEW r, Admitted(r), NEW l, DOMAIN l \subseteq Clusters,
           NEW t \in Seq(Manifests), Distinct(t), NEW c, NEW o
    PROVE  Given(GenerateWorks(r, l, t), c, o) = AskedOfFirst(r, l, t, c, o)
<1>1. Given(GenerateWorks(r, l, t), c, o) =
          (IF Ruling(r, l, c) = {} THEN {} ELSE RuleGives(r, 1, t, o))
          \cup (IF c \in Residue(r, l) THEN Bodied(t, o) ELSE {})
  BY WorksGive
<1>2. AskedOfFirst(r, l, t, c, o) =
          IF c \notin Placed(r, l) THEN {}
          ELSE IF Ruling(r, l, c) = {} THEN Bodied(t, o)
          ELSE RuleGives(r, 1, t, o)
  BY DEF AskedOfFirst, RuleGives
<1>3. c \in Residue(r, l) <=> c \in Placed(r, l) /\ Ruling(r, l, c) = {}
  BY DEF Residue, Ruling
<1>4. c \notin Placed(r, l) => Ruling(r, l, c) = {}
  BY TargetsPlaced DEF Ruling
<1>5. QED
  BY <1>1, <1>2, <1>3, <1>4

-----------------------------------------------------------------------------
(* The Workloads of the older version *)

(* getOverrideOptions copies all there is of a patch. *)
LEMMA OptionsAll ==
    ASSUME NEW x, IsRule(x)
    PROVE  LegacyOptions(x) = x.patch
<1> DEFINE ops == x.patch
<1>1. ops \in Seq(Overriders) /\ Len(ops) \in Nat
  BY LenProperties DEF IsRule
<1>2. ASSUME NEW i \in 1..Len(ops)
      PROVE  ops[i] = [op |-> ops[i].op, path |-> ops[i].path, value |-> ops[i].value]
  <2>1. ops[i] \in Overriders
    BY <1>1, ElementOfSeq
  <2>2. QED
    BY <2>1 DEF Overriders
<1>3. ops = [i \in 1..Len(ops) |-> ops[i]]
  BY <1>1
<1>4. LegacyOptions(x) =
          [i \in 1..Len(ops) |->
              [op |-> ops[i].op, path |-> ops[i].path, value |-> ops[i].value]]
  BY DEF LegacyOptions
<1> HIDE DEF ops
<1>5. LegacyOptions(x) = ops
  BY <1>2, <1>3, <1>4
<1>6. QED
  BY <1>5 DEF ops

(* Its slice arrObj is the same. *)
LEMMA AccumulatedAlike ==
    ASSUME NEW r, Admitted(r), NEW t, NEW k \in 1..Len(r.rules)
    PROVE  LegacyAccumulated(r, t, k) = Accumulated(r, t, k)
<1> DEFINE F(g) == [i \in 0..k |->
                      IF i = 0 THEN <<>> ELSE g[i - 1] \o Patched(t, r.rules[i].patch)]
           H(g) == [i \in 0..k |->
                      IF i = 0 THEN <<>>
                      ELSE g[i - 1] \o LegacyPatched(t, LegacyOptions(r.rules[i]))]
<1>1. Accumulated(r, t, k) = (CHOOSE g : g = F(g))[k]
  BY DEF Accumulated
<1>2. LegacyAccumulated(r, t, k) = (CHOOSE g : g = H(g))[k]
  BY DEF LegacyAccumulated
<1>3. ASSUME NEW i \in 0..k, i # 0
      PROVE  LegacyPatched(t, LegacyOptions(r.rules[i])) = Patched(t, r.rules[i].patch)
  <2>1. i \in 1..Len(r.rules)
    BY <1>3 DEF Admitted
  <2>2. LegacyOptions(r.rules[i]) = r.rules[i].patch
    BY <2>1, OptionsAll DEF Admitted
  <2>3. QED
    BY <2>2 DEF LegacyPatched
<1>4. ASSUME NEW g PROVE F(g) = H(g)
  BY <1>3
<1> HIDE DEF F, H
<1>5. QED
  BY <1>1, <1>2, <1>4

(* Where nothing panics and there are resources, each rule has a target.   *)
LEMMA TargetsThere ==
    ASSUME NEW r, Admitted(r), NEW t \in Seq(Manifests), t # <<>>, LegacySucceeds(r, t)
    PROVE  \A k \in 1..Len(r.rules) : r.rules[k].target # None
<1> DEFINE D == {n \in Nat : \A k \in 1..n :
                    k <= Len(r.rules) => r.rules[k].target # None}
<1>1. Len(r.rules) \in Nat /\ 1 \in 1..Len(t) /\ Succeeds(r, t) /\ ~LegacyPanics(r, t)
  BY LenProperties, EmptySeq DEF Admitted, LegacySucceeds
<1>2. 0 \in D
  OBVIOUS
<1>3. ASSUME NEW n \in Nat, n \in D PROVE n + 1 \in D
  <2>1. PICK m : m = n + 1
    OBVIOUS
  <2>2. ASSUME m <= Len(r.rules), r.rules[m].target = None PROVE FALSE
    <3>1. m \in 1..Len(r.rules) /\ \A j \in 1..m - 1 : j \in 1..n /\ j <= Len(r.rules)
      BY <1>1, <2>1, <2>2
    <3>2. LegacyReaches(r, t, m)
      <4>1. ASSUME NEW j \in 1..m - 1
            PROVE  /\ r.rules[j].target # None
                   /\ \A i \in 1..Len(t) : Overrides(t[i].body, r.rules[j].patch)
        <5>1. j \in 1..Len(r.rules) /\ j \in 1..n /\ j <= Len(r.rules)
          BY <1>1, <3>1
        <5>2. QED
          BY <1>1, <1>3, <5>1 DEF Succeeds
      <4>2. QED
        BY <4>1 DEF LegacyReaches
    <3>3. Overrides(t[1].body, r.rules[m].patch)
      BY <1>1, <3>1 DEF Succeeds
    <3>4. QED
      BY <1>1, <2>2, <3>1, <3>2, <3>3 DEF LegacyPanics
  <2>3. \A k \in 1..n + 1 : k \in 1..n \/ k = m
    BY <2>1
  <2>4. QED
    BY <1>3, <2>2, <2>3
<1>4. Nat \subseteq D
  <2> HIDE DEF D
  <2>1. QED
    BY <1>2, <1>3, SetInduction
<1>5. Len(r.rules) \in D
  BY <1>1, <1>4
<1>6. QED
  BY <1>5

(* The rules of which a cluster is, which may be outside the placement.    *)
LegacyRuling(r, l, t, c) ==
    {k \in 1..Len(r.rules) : c \in LegacyTargeted(r, k, l, t)}

RulesGive(r, t, o, rules) == UNION {RuleGives(r, k, t, o) : k \in rules}

LEMMA LegacyPlacedSame ==
    ASSUME NEW r, NEW l
    PROVE  LegacyPlaced(r, l) = Placed(r, l)
BY DEF LegacyPlaced, Placed, LegacyMatching, Chosen

(* What the Workloads of the older version give a cluster. *)
LEMMA LegacyGives ==
    ASSUME NEW r, Admitted(r), NEW l, NEW t \in Seq(Manifests), Distinct(t),
           NEW c, NEW o
    PROVE  LegacyGiven(LegacyWorks(r, l, t), c, o) =
              RulesGive(r, t, o, LegacyRuling(r, l, t, c))
              \cup (IF c \in Placed(r, l) THEN Bodied(t, o) ELSE {})
<1> DEFINE n == Len(r.rules)
           a == [k \in 1..n |-> LegacyWork(r, r.rules[k].id, LegacyTargeted(r, k, l, t),
                                            LegacyAccumulated(r, t, k))]
           e == LegacyWork(r, r.id, LegacyPlaced(r, l), t)
           own == NamingOf(a, n, c)
           last == IF c \in Placed(r, l) THEN {e} ELSE {}
           rules == LegacyRuling(r, l, t, c)
<1>1. n \in Nat
  BY DEF Admitted
<1>2. e.clusters = Placed(r, l) /\ e.manifests = t
  BY LegacyPlacedSame DEF LegacyWork, Work
<1>3. LegacyWorks(r, l, t) = Then(a, Placed(r, l), e)
  BY LegacyPlacedSame DEF LegacyWorks, Then
<1>4. ASSUME NEW k \in 1..n
      PROVE  /\ a[k].clusters = LegacyTargeted(r, k, l, t)
             /\ LegacyPrevailing(a[k].manifests, o) = RuleGives(r, k, t, o)
  <2>1. /\ a[k].clusters = LegacyTargeted(r, k, l, t)
        /\ a[k].manifests = LegacyAccumulated(r, t, k)
    BY DEF LegacyWork, Work
  <2>2. LegacyAccumulated(r, t, k) = Accumulated(r, t, k)
    BY AccumulatedAlike
  <2>3. QED
    BY <2>1, <2>2, RulePrevails
<1>5. Numbered(a, n)
  BY <1>1 DEF Numbered
<1>6. rules = {j \in 1..n : c \in LegacyTargeted(r, j, l, t)}
  BY DEF LegacyRuling
<1> HIDE DEF a, e, n, rules
<1>7. Naming(Then(a, Placed(r, l), e), c) = own \cup last
  <2>1. e.clusters = Placed(r, l)
    BY <1>2
  <2>2. QED
    BY <1>5, <2>1, ThenNames
<1>8. own = {a[k] : k \in rules} /\ rules \subseteq 1..n
  BY <1>4, <1>6 DEF NamingOf
<1>9. LegacyPrevailing(e.manifests, o) = Bodied(t, o)
  BY <1>2, DistinctPrevail
<1>10. LegacyGiven(Then(a, Placed(r, l), e), c, o) =
           UNION {LegacyPrevailing(w.manifests, o) : w \in own \cup last}
  BY <1>7, NamingGives
<1>11. UNION {LegacyPrevailing(a[k].manifests, o) : k \in rules} = RulesGive(r, t, o, rules)
  BY <1>4, <1>8 DEF RulesGive
<1> HIDE DEF own
<1>12. UNION {LegacyPrevailing(w.manifests, o) : w \in own \cup last} =
           RulesGive(r, t, o, rules) \cup (IF c \in Placed(r, l) THEN Bodied(t, o) ELSE {})
  BY <1>8, <1>9, <1>11
<1>13. QED
  BY <1>3, <1>10, <1>12 DEF rules

(* A placed cluster gets at least what the RD asks for, and beyond that    *)
(* only the templates.                                                     *)
LEMMA LegacyMore ==
    ASSUME NEW r, Admitted(r), NEW l, NEW t \in Seq(Manifests), Distinct(t),
           LegacySucceeds(r, t), NEW c \in Placed(r, l), NEW o
    PROVE  LET asked == Asked(r, l, t, c, o)
               old == LegacyGiven(LegacyWorks(r, l, t), c, o)
           IN  asked \subseteq old /\ old \ asked \subseteq Bodied(t, o)
<1> DEFINE asked == Asked(r, l, t, c, o)
           old == LegacyGiven(LegacyWorks(r, l, t), c, o)
           rules == Ruling(r, l, c)
<1>1. old = RulesGive(r, t, o, LegacyRuling(r, l, t, c)) \cup Bodied(t, o)
  BY LegacyGives
<1>2. asked = IF rules = {} THEN Bodied(t, o) ELSE RulesGive(r, t, o, rules)
  <2> DEFINE ruled == {Override(b, r.rules[k].patch) :
                          b \in Bodied(t, o), k \in Ruling(r, l, c)}
  <2>1. ruled = RulesGive(r, t, o, rules)
    BY DEF RulesGive, RuleGives
  <2>2. asked = IF rules = {} THEN Bodied(t, o) ELSE ruled
    BY DEF Asked
  <2> HIDE DEF ruled, asked, rules
  <2>3. QED
    BY <2>1, <2>2
<1> HIDE DEF asked, old
<1>3. CASE t = <<>>
  <2>1. Bodied(t, o) = {}
    BY <1>3 DEF Bodied
  <2>2. \A s : RulesGive(r, t, o, s) = {}
    BY <2>1 DEF RuleGives, RulesGive
  <2>3. QED
    BY <1>1, <1>2, <2>1, <2>2 DEF asked, old
<1>4. CASE t # <<>>
  <2>1. ASSUME NEW k \in 1..Len(r.rules)
        PROVE  c \in LegacyTargeted(r, k, l, t) <=> c \in Targeted(r, k, l)
    <3>1. r.rules[k].target # None
      BY <1>4, TargetsThere
    <3>2. QED
      BY <1>4, <3>1 DEF Targeted, LegacyTargeted, LegacyMatching, Chosen
  <2>2. LegacyRuling(r, l, t, c) = rules
    BY <2>1 DEF LegacyRuling, Ruling
  <2>3. rules = {} => RulesGive(r, t, o, rules) = {}
    BY DEF RulesGive
  <2>4. QED
    BY <1>1, <1>2, <2>2, <2>3 DEF asked, old
<1>5. QED
  BY <1>3, <1>4

-----------------------------------------------------------------------------
(* What generateWorks returns *)

Member(w) == w.clusters \subseteq Clusters /\ w.manifests \in Seq(Manifests)

Members(list) == \A i \in 1..Len(list) : Member(list[i])

LEMMA ThenMembers ==
    ASSUME NEW n, NEW a, Numbered(a, n), NEW rest, NEW e,
           \A k \in 1..n : Member(a[k]), Member(e)
    PROVE  Members(Then(a, rest, e))
<1> DEFINE w == Then(a, rest, e)
<1>1. /\ Len(w) = IF rest = {} THEN n ELSE n + 1
      /\ \A k \in 1..n : w[k] = a[k]
      /\ rest # {} => w[n + 1] = e
  BY ThenListed
<1>2. n \in Nat
  BY DEF Numbered
<1> HIDE DEF w
<1>3. ASSUME NEW i \in 1..Len(w) PROVE Member(w[i])
  <2>1. CASE i \in 1..n
    BY <1>1, <2>1
  <2>2. CASE i \notin 1..n
    <3>1. rest # {} /\ i = n + 1
      BY <1>1, <1>2, <2>2
    <3>2. QED
      BY <1>1, <3>1
  <2>3. QED
    BY <2>1, <2>2
<1>4. QED
  BY <1>3 DEF Members, w

(* generateWorks names member clusters only. *)
LEMMA WorksTyped ==
    ASSUME NEW r, Admitted(r), NEW l, DOMAIN l \subseteq Clusters,
           NEW t \in Seq(Manifests), Distinct(t)
    PROVE  Members(GenerateWorks(r, l, t))
<1> DEFINE n == Len(r.rules)
           a == [k \in 1..n |-> RuleWork(r, l, t, k)]
           e == ResidueWork(r, l, t)
<1>1. Numbered(a, n)
  BY DEF Admitted, Numbered
<1>2. GenerateWorks(r, l, t) = Then(a, Residue(r, l), e)
  BY DEF GenerateWorks, Then
<1>3. ASSUME NEW k \in 1..n PROVE Member(a[k])
  <2>1. /\ a[k].clusters = Targeted(r, k, l)
        /\ a[k].manifests = Accumulated(r, t, k)
    BY DEF RuleWork, Work
  <2>2. Targeted(r, k, l) \subseteq Clusters
    BY TargetsPlaced
  <2>3. Accumulated(r, t, k) \in Seq(Manifests)
    BY RulePrevails
  <2>4. QED
    BY <2>1, <2>2, <2>3 DEF Member
<1>4. Member(e)
  <2>1. e.clusters = Residue(r, l) /\ e.manifests = t
    BY DEF ResidueWork, Work
  <2>2. Residue(r, l) \subseteq Clusters
    BY TargetsPlaced DEF Residue
  <2>3. QED
    BY <2>1, <2>2 DEF Member
<1> HIDE DEF n, a, e
<1>5. Members(Then(a, Residue(r, l), e))
  BY <1>1, <1>3, <1>4, ThenMembers
<1>6. QED
  BY <1>2, <1>5

(* So does the older version, where it does not panic. *)
LEMMA LegacyTyped ==
    ASSUME NEW r, Admitted(r), NEW l, DOMAIN l \subseteq Clusters,
           NEW t \in Seq(Manifests), Distinct(t), LegacySucceeds(r, t)
    PROVE  Members(LegacyWorks(r, l, t))
<1> DEFINE n == Len(r.rules)
           a == [k \in 1..n |-> LegacyWork(r, r.rules[k].id, LegacyTargeted(r, k, l, t),
                                            LegacyAccumulated(r, t, k))]
           e == LegacyWork(r, r.id, LegacyPlaced(r, l), t)
<1>1. Numbered(a, n)
  BY DEF Admitted, Numbered
<1>2. LegacyWorks(r, l, t) = Then(a, Placed(r, l), e)
  BY LegacyPlacedSame DEF LegacyWorks, Then
<1>3. ASSUME NEW k \in 1..n PROVE Member(a[k])
  <2>1. /\ a[k].clusters = LegacyTargeted(r, k, l, t)
        /\ a[k].manifests = LegacyAccumulated(r, t, k)
    BY DEF LegacyWork, Work
  <2>2. LegacyTargeted(r, k, l, t) \subseteq Clusters
    <3>1. CASE t = <<>>
      BY <3>1 DEF LegacyTargeted
    <3>2. CASE t # <<>>
      <4>1. r.rules[k].target \in Affinities
        BY <3>2, TargetsThere DEF Admitted, IsRule
      <4>2. QED
        BY <3>2, <4>1 DEF Affinities, LegacyTargeted, LegacyMatching, Matching
    <3>3. QED
      BY <3>1, <3>2
  <2>3. LegacyAccumulated(r, t, k) \in Seq(Manifests)
    BY AccumulatedAlike, RulePrevails
  <2>4. QED
    BY <2>1, <2>2, <2>3 DEF Member
<1>4. Member(e)
  <2>1. e.clusters = Placed(r, l) /\ e.manifests = t
    BY LegacyPlacedSame DEF LegacyWork, Work
  <2>2. QED
    BY <2>1, TargetsPlaced DEF Member
<1> HIDE DEF n, a, e
<1>5. Members(Then(a, Placed(r, l), e))
  BY <1>1, <1>3, <1>4, ThenMembers
<1>6. QED
  BY <1>2, <1>5

-----------------------------------------------------------------------------
(* The invariant *)

(* What was returned is what is computed from the inputs. *)
WorksOK ==
    /\ works.is \in {"none", "works", "error"}
    /\ works.list = IF works.is = "works" THEN GenerateWorks(rd, lab, Templates) ELSE <<>>

LegacyOK ==
    /\ legacy.is \in Outcomes
    /\ legacy.list = IF legacy.is = "works" THEN LegacyWorks(rd, lab, Templates) ELSE <<>>
    /\ legacy.is = "works" => LegacySucceeds(rd, Templates)

PlanningInv ==
    /\ rd \in Rds
    /\ lab \in Labellings
    /\ host \in Hosts
    /\ WorksOK
    /\ LegacyOK

LEMMA InitInv == Init => PlanningInv
BY DEF Init, PlanningInv, WorksOK, LegacyOK, Outcomes

LEMMA NextInv == PlanningInv /\ [Next]_vars => PlanningInv'
<1> SUFFICES ASSUME PlanningInv, [Next]_vars PROVE PlanningInv'
  OBVIOUS
<1>1. rd' = rd /\ lab' = lab /\ host' = host /\ Templates' = Templates
  BY DEF Next, Generate, GenerateLegacy, vars, Templates
<1>2. CASE Generate
  <2>1. WorksOK'
    BY <1>1, <1>2 DEF Generate, WorksOK
  <2>2. LegacyOK'
    BY <1>1, <1>2 DEF Generate, PlanningInv, LegacyOK
  <2>3. QED
    BY <1>1, <2>1, <2>2 DEF PlanningInv
<1>3. CASE GenerateLegacy
  <2>1. WorksOK'
    BY <1>1, <1>3 DEF GenerateLegacy, PlanningInv, WorksOK
  <2>2. LegacyOK'
    BY <1>1, <1>3 DEF GenerateLegacy, LegacyOK, LegacyFetched, Templates,
                      LegacySucceeds, Outcomes
  <2>3. QED
    BY <1>1, <2>1, <2>2 DEF PlanningInv
<1>4. CASE UNCHANGED vars
  BY <1>1, <1>4 DEF vars, PlanningInv, WorksOK, LegacyOK
<1>5. QED
  BY <1>2, <1>3, <1>4 DEF Next

LEMMA InvHolds == Spec => []PlanningInv
BY InitInv, NextInv, PTL DEF Spec

LEMMA InvInputs ==
    ASSUME PlanningInv
    PROVE  /\ Admitted(rd)
           /\ DOMAIN lab \subseteq Clusters
           /\ host \in Seq(Manifests)
           /\ Templates \in Seq(Manifests)
           /\ Distinct(Templates)
<1>1. Admitted(rd) /\ DOMAIN lab \subseteq Clusters /\ host \in Seq(Manifests) /\ Distinct(host)
  BY Inputs DEF PlanningInv
<1>2. QED
  BY <1>1, FetchedListed DEF Templates

LEMMA InvTyped == PlanningInv => TypeOK
<1> SUFFICES ASSUME PlanningInv PROVE TypeOK
  OBVIOUS
<1>1. Admitted(rd) /\ \A i \in 1..Len(host) : host[i] \in Manifests
  BY InvInputs, ElementOfSeq
<1>2. Members(<<>>)
  BY DEF Members
<1>3. Members(works.list)
  <2>1. Members(GenerateWorks(rd, lab, Templates))
    BY InvInputs, WorksTyped
  <2>2. QED
    BY <1>2, <2>1 DEF PlanningInv, WorksOK
<1>4. Members(legacy.list)
  <2>1. ASSUME legacy.is = "works" PROVE Members(LegacyWorks(rd, lab, Templates))
    BY <2>1, InvInputs, LegacyTyped DEF PlanningInv, LegacyOK
  <2>2. QED
    BY <1>2, <2>1 DEF PlanningInv, LegacyOK
<1>5. works.is \in Outcomes \ {"panic"} /\ legacy.is \in Outcomes
  BY DEF PlanningInv, WorksOK, LegacyOK, Outcomes
<1>6. QED
  BY <1>1, <1>3, <1>4, <1>5 DEF TypeOK, Admitted, Members, Member

LEMMA InvAsked == PlanningInv => WorksGiveFirstRule
<1>1. ASSUME PlanningInv, works.is = "works", NEW c \in Clusters, NEW o \in Objs
      PROVE  Given(works.list, c, o) = AskedOfFirst(rd, lab, Templates, c, o)
  <2>1. works.list = GenerateWorks(rd, lab, Templates)
    BY <1>1 DEF PlanningInv, WorksOK
  <2>2. QED
    BY <1>1, <2>1, InvInputs, WorksAsked
<1>2. QED
  BY <1>1 DEF WorksGiveFirstRule

LEMMA InvMore == PlanningInv => LegacyGivesMore
<1>1. ASSUME PlanningInv, legacy.is = "works", NEW c \in Placed(rd, lab), NEW o \in Objs
      PROVE  LET asked == Asked(rd, lab, Templates, c, o)
                 old == LegacyGiven(legacy.list, c, o)
             IN  asked \subseteq old /\ old \ asked \subseteq Bodied(Templates, o)
  <2>1. legacy.list = LegacyWorks(rd, lab, Templates) /\ LegacySucceeds(rd, Templates)
    BY <1>1 DEF PlanningInv, LegacyOK
  <2>2. QED
    BY <1>1, <2>1, InvInputs, LegacyMore
<1>2. QED
  BY <1>1 DEF LegacyGivesMore

-----------------------------------------------------------------------------
(* Theorems *)

(* generateWorks and its predecessor, given what the API server admits,    *)
(* return Workloads of member clusters and manifests of their resources,   *)
(* and generateWorks never panics.                                         *)
THEOREM TypeCorrect == Spec => []TypeOK
BY InvHolds, InvTyped, PTL

(* However many rules, templates and clusters there are, the Workloads of  *)
(* generateWorks give a cluster that has none of the objects nothing if it *)
(* is not placed, the resources if no rule targets it, and else what the   *)
(* first rule makes of them: what arrObj keeps of it precedes all others.  *)
THEOREM WorksGiveFirst == Spec => []WorksGiveFirstRule
BY InvHolds, InvAsked, PTL

(* The Workloads of the older generateWorks, applied by WorkReconciler,    *)
(* give a placed cluster what the RD asks for, and besides at most the     *)
(* unchanged resource.                                                     *)
THEOREM LegacyGivesAtLeast == Spec => []LegacyGivesMore
BY InvHolds, InvMore, PTL
=============================================================================
