------------------------- MODULE EventRouting_proofs -------------------------
(***************************************************************************)
(* Theorems about EventRouting, for any RDs, selectors and resources and   *)
(* any number of changes and crashes.  Four inductive invariants, each     *)
(* with the one before it in it: Inv, of the two maps; TInv, of everything *)
(* else's type; CInv, of the announcements that wait and what they will    *)
(* make of the maps; LInv, of the changes on their way to a sync.          *)
(***************************************************************************)
EXTENDS RoutingProperties, SequenceTheorems, FiniteSetTheorems, FunctionTheorems,
        WellFoundedInduction, TLAPS

(* A loop that looks for r from the front finds the first r there is. *)
LEMMA FirstFinds ==
    ASSUME NEW S, NEW s \in Seq(S), NEW r, \E i \in 1..Len(s) : s[i] = r
    PROVE  /\ First(s, r) \in 1..Len(s)
           /\ s[First(s, r)] = r
<1> DEFINE T == {i \in 1..Len(s) : s[i] = r}
<1>1. Len(s) \in Nat
  BY LenProperties
<1>2. T \subseteq Nat /\ T # {}
  BY <1>1
<1>3. PICK i \in T : \A j \in T : ~(<<j, i>> \in OpToRel(<, Nat))
  BY <1>2, WFMin, NatLessThanWellFounded
<1>4. ASSUME NEW j \in 1..i - 1 PROVE s[j] # r
  <2>1. j \in 1..Len(s) /\ j < i /\ j \in Nat /\ i \in Nat
    BY <1>1
  <2>2. <<j, i>> \in OpToRel(<, Nat)
    BY <2>1 DEF OpToRel
  <2>3. QED
    BY <1>3, <2>1, <2>2
<1>5. i \in 1..Len(s) /\ s[i] = r /\ \A j \in 1..i - 1 : s[j] # r
  BY <1>4
<1>6. QED
  BY <1>5 DEF First

Elements(s) == {s[i] : i \in 1..Len(s)}

Lists == [list : Seq(RDs), cap : Nat]

(* Cut takes no other RD out of a list. *)
LEMMA CutKeeps ==
    ASSUME NEW l \in Lists, NEW r \in RDs
    PROVE  /\ Cut(l, r) \in Lists
           /\ Elements(l.list) \ {r} \subseteq Elements(Cut(l, r).list)
<1> DEFINE s == l.list
           n == Len(s)
           i == First(s, r)
           t == Shifted(s, i)
<1>1. s \in Seq(RDs) /\ n \in Nat /\ \A j \in 1..n : s[j] \in RDs
  BY LenProperties, ElementOfSeq DEF Lists
<1>2. CASE \A j \in 1..n : s[j] # r
  BY <1>2 DEF Cut
<1>3. CASE ~\A j \in 1..n : s[j] # r
  <2>1. i \in 1..n /\ s[i] = r
    BY <1>1, <1>3, FirstFinds
  <2> HIDE DEF i
  <2>2. /\ t = [j \in 1..n |-> IF j < i \/ j = n THEN s[j] ELSE s[j + 1]]
        /\ \A j \in 1..n : t[j] \in RDs
    BY <1>1, <2>1 DEF Shifted
  <2>3. Len(t) = n /\ t \in Seq(RDs)
    <3>1. t \in [1..n -> RDs]
      BY <2>2
    <3>2. t \in Seq(RDs)
      BY <1>1, <3>1, SeqDef
    <3>3. QED
      BY <1>1, <3>1, <3>2, LenProperties
  <2>4. CASE n = 1
    <3>1. Cut(l, r) = NoList
      BY <1>3, <2>3, <2>4 DEF Cut, i
    <3>2. Elements(s) = {r}
      BY <2>1, <2>4 DEF Elements
    <3>3. NoList \in Lists
      BY EmptySeq DEF NoList, Lists
    <3>4. QED
      BY <3>1, <3>2, <3>3
  <2>5. CASE n # 1
    <3> DEFINE u == SubSeq(t, 1, n - 1)
    <3>1. n > 1
      <4>1. \A m \in Nat : \A k \in 1..m : m # 1 => m > 1
        OBVIOUS
      <4>2. QED
        BY <1>1, <2>1, <2>5, <4>1
    <3>2. /\ u \in Seq(RDs) /\ Len(u) = n - 1
          /\ \A j \in 1..n - 1 : u[j] = t[j]
      <4>1. 1 \in Int /\ n - 1 \in Int /\ \A j \in 1..n - 1 : t[j] \in RDs
        BY <1>1, <2>2
      <4> HIDE DEF t
      <4>2. /\ u \in Seq(RDs)
            /\ Len(u) = IF 1 <= n - 1 THEN (n - 1) - 1 + 1 ELSE 0
            /\ \A j \in 1..(n - 1) - 1 + 1 : u[j] = t[1 + j - 1]
        BY <4>1, SubSeqProperties
      <4>3. QED
        BY <1>1, <3>1, <4>2
    <3> HIDE DEF u
    <3>3. Cut(l, r) = [l EXCEPT !.list = u]
      BY <1>3, <2>3, <2>5 DEF Cut, i, u
    <3>4. ASSUME NEW j \in 1..n, s[j] # r PROVE \E k \in 1..n - 1 : u[k] = s[j]
      <4>1. CASE j < i
        <5>1. j \in 1..n - 1 /\ t[j] = s[j]
          BY <1>1, <2>1, <2>2, <4>1
        <5>2. QED
          BY <3>2, <5>1
      <4>2. CASE j > i
        <5>1. j - 1 \in 1..n - 1 /\ j - 1 \in 1..n /\ ~(j - 1 < i) /\ j - 1 # n /\ (j - 1) + 1 = j
          BY <1>1, <2>1, <4>2
        <5>2. t[j - 1] = s[j]
          BY <2>2, <5>1
        <5>3. QED
          BY <3>2, <5>1, <5>2
      <4>3. QED
        BY <1>1, <2>1, <3>4, <4>1, <4>2
    <3>5. Elements(s) \ {r} \subseteq Elements(u)
      BY <3>2, <3>4 DEF Elements
    <3>6. QED
      BY <3>2, <3>3, <3>5 DEF Lists
  <2>6. QED
    BY <2>4, <2>5
<1>4. QED
  BY <1>2, <1>3

(* append adds one. *)
LEMMA GrownKeeps ==
    ASSUME NEW l \in Lists, NEW r \in RDs
    PROVE  /\ Grown(l, r) \in Lists
           /\ Elements(Grown(l, r).list) = Elements(l.list) \cup {r}
<1> DEFINE t == Append(l.list, r)
<1>1. /\ l.list \in Seq(RDs) /\ Len(l.list) \in Nat /\ l.cap \in Nat
      /\ t \in Seq(RDs) /\ Len(t) = Len(l.list) + 1
      /\ \A i \in 1..Len(l.list) : t[i] = l.list[i]
      /\ t[Len(l.list) + 1] = r
  BY AppendProperties, LenProperties DEF Lists
<1> HIDE DEF t
<1>2. Grown(l, r).list = t /\ Grown(l, r) \in Lists
  BY <1>1 DEF Grown, Lists, t
<1>3. 1..Len(t) = 1..Len(l.list) \cup {Len(l.list) + 1}
  BY <1>1
<1>4. ASSUME NEW x
      PROVE  x \in Elements(t) <=> x \in Elements(l.list) \cup {r}
  <2>1. x \in Elements(t) <=> \E i \in 1..Len(t) : t[i] = x
    BY DEF Elements
  <2>2. x \in Elements(l.list) <=> \E i \in 1..Len(l.list) : l.list[i] = x
    BY DEF Elements
  <2>3. QED
    BY <1>1, <1>3, <2>1, <2>2
<1>5. QED
  BY <1>2, <1>4

(* What an informer announces at its start: every element, and once. *)
LEMMA SetToSeqHasAll ==
    ASSUME NEW S, IsFiniteSet(S)
    PROVE  /\ SetToSeq(S) \in Seq(S)
           /\ \A x \in S : \E i \in 1..Len(SetToSeq(S)) : SetToSeq(S)[i] = x
           /\ \A i, j \in 1..Len(SetToSeq(S)) :
                 SetToSeq(S)[i] = SetToSeq(S)[j] => i = j
<1> DEFINE n == Cardinality(S)
           t == SetToSeq(S)
<1>1. n \in Nat /\ Bijection(1..n, S) # {}
  BY FS_CardinalityType, Fun_ExistsBij
<1>2. PICK f : f \in Bijection(1..n, S)
  BY <1>1
<1>3. f \in [1..n -> S] /\ IsInjective(f)
  BY <1>2, Fun_BijectionProperties DEF IsInjective, Injection, Bijection
<1>4. t \in [1..n -> S] /\ IsInjective(t)
  BY <1>3 DEF SetToSeq
<1>5. t \in Injection(1..n, S)
  BY <1>4 DEF Injection
<1>6. IsFiniteSet(1..n) /\ Cardinality(1..n) = n
  BY <1>1, FS_Interval
<1>7. t \in Surjection(1..n, S)
  BY <1>5, <1>6, FS_Injection
<1>8. t \in Seq(S) /\ Len(t) = n
  BY <1>1, <1>4, SeqDef, LenProperties
<1>9. \A x \in S : \E i \in 1..n : t[i] = x
  BY <1>4, <1>7 DEF Surjection
<1>10. \A i, j \in 1..n : t[i] = t[j] => i = j
  BY <1>4 DEF IsInjective
<1> HIDE DEF t, n
<1>11. QED
  BY <1>8, <1>9, <1>10 DEF t

-----------------------------------------------------------------------------
(* The inductive invariant: whoever is announced has a selector, the       *)
(* goroutine of the handlers works with a key, and between its two writes  *)
(* the RD it adds is already in the list of that key.                      *)

Entries ==
    {e \in [op : {"add", "update", "delete", "lost"}, rd : RDs,
            sel : Selectors \cup {None}] : e.op # "lost" => e.sel \in Selectors}

RdhOK ==
    /\ rdh.pc \in {"idle", "add key", "add rd", "cut key", "cut rd", "enqueue"}
    /\ rdh = [pc |-> rdh.pc, rd |-> rdh.rd, key |-> rdh.key]
    /\ rdh.pc # "idle" => rdh.rd \in RDs /\ rdh.key \in Selectors
    /\ rdh.pc \notin {"idle", "enqueue"} => rdh.key \in Keys

Inv ==
    /\ known \in [RDs -> Selectors \cup {None}]
    /\ feed \in Seq(Entries)
    /\ RdhOK
    /\ byKey \in [Keys -> Lists]
    /\ keyOf \in [RDs -> Keys \cup {None}]
    /\ rdh.pc = "add rd" => rdh.rd \in Found(rdh.key)
    /\ IndexFinds

LEMMA AddedOK ==
    ASSUME known \in [RDs -> Selectors \cup {None}]
    PROVE  Added(SetToSeq({r \in RDs : known[r] # None})) \in Seq(Entries)
<1> DEFINE S == {r \in RDs : known[r] # None}
           t == SetToSeq(S)
<1>1. IsFiniteSet(S)
  BY RoutingConstants, FS_Subset
<1>2. t \in Seq(S)
  BY <1>1, SetToSeqHasAll
<1>3. Len(t) \in Nat /\ \A i \in 1..Len(t) : t[i] \in S
  BY <1>2, LenProperties, ElementOfSeq
<1> HIDE DEF t
<1>4. Added(t) \in [1..Len(t) -> Entries]
  BY <1>3 DEF Added, Entries
<1>5. Added(t) \in Seq(Entries)
  BY <1>3, <1>4, SeqDef
<1>6. QED
  BY <1>5 DEF t

LEMMA InitInv == Init => Inv
<1>1. SUFFICES ASSUME Init PROVE Inv
  OBVIOUS
<1>2. NoList \in Lists
  BY EmptySeq DEF NoList, Lists
<1>3. known \in [RDs -> Selectors \cup {None}] /\ feed \in Seq(Entries)
  BY <1>1, AddedOK DEF Init
<1>4. RdhOK /\ rdh.pc = "idle"
  BY <1>1 DEF Init, RdhOK, Idle
<1>5. byKey \in [Keys -> Lists] /\ keyOf \in [RDs -> Keys \cup {None}]
  BY <1>1, <1>2 DEF Init
<1>6. IndexFinds
  BY <1>1 DEF Init, IndexFinds
<1>7. QED
  BY <1>3, <1>4, <1>5, <1>6 DEF Inv

(* What leaves the maps and their goroutine alone. *)
LEMMA OthersInv ==
    ASSUME Inv, UNCHANGED <<rdh, index>>,
           known' \in [RDs -> Selectors \cup {None}], feed' \in Seq(Entries)
    PROVE  Inv'
<1>1. \A k : Found(k)' = Found(k)
  BY DEF Found, index
<1>2. QED
  BY <1>1 DEF Inv, RdhOK, IndexFinds, index

LEMMA AnnounceOK ==
    ASSUME Inv, NEW r \in RDs, NEW op, NEW s, Announce(op, r, s),
           \/ op \in {"add", "update", "delete"} /\ s \in Selectors
           \/ op = "lost" /\ s = None
    PROVE  feed' \in Seq(Entries)
<1>1. [op |-> op, rd |-> r, sel |-> s] \in Entries
  BY DEF Entries
<1>2. QED
  BY <1>1, AppendProperties DEF Inv, Announce

LEMMA UserInv ==
    ASSUME Inv, NEW r \in RDs, Create(r) \/ Edit(r) \/ Delete(r)
    PROVE  Inv'
<1>1. UNCHANGED <<rdh, index>>
  BY DEF Create, Edit, Delete
<1>2. known' \in [RDs -> Selectors \cup {None}]
  BY DEF Inv, Create, Edit, Delete
<1>3. feed' \in Seq(Entries)
  <2>1. CASE Create(r) \/ Edit(r)
    BY <2>1, AnnounceOK DEF Create, Edit
  <2>2. CASE Delete(r)
    <3>1. known[r] \in Selectors
      BY <2>2 DEF Inv, Delete
    <3>2. QED
      BY <2>2, <3>1, AnnounceOK DEF Delete
  <2>3. QED
    BY <2>1, <2>2
<1>4. QED
  BY <1>1, <1>2, <1>3, OthersInv

LEMMA HandleInv == ASSUME Inv, HandleRD PROVE Inv'
<1> DEFINE e == Head(feed)
<1>1. e \in Entries /\ feed' \in Seq(Entries)
  BY HeadTailProperties DEF Inv, HandleRD
<1>2. /\ rdh' = IF Entry(e) = "idle" THEN Idle
                ELSE [pc |-> Entry(e), rd |-> e.rd, key |-> e.sel]
      /\ UNCHANGED <<known, index>>
  BY DEF HandleRD
<1> HIDE DEF e
<1>3. /\ e.rd \in RDs
      /\ e.op # "lost" => e.sel \in Selectors
      /\ e.op \in {"add", "update", "delete", "lost"}
  BY <1>1 DEF Entries
<1>4. /\ Entry(e) \in {"idle", "add key", "cut key", "enqueue"}
      /\ Entry(e) # "idle" => e.op # "lost"
      /\ Entry(e) \in {"add key", "cut key"} => Valid(e.sel)
  BY <1>3 DEF Entry
<1>5. Entry(e) \in {"add key", "cut key"} => e.sel \in Keys
  BY <1>3, <1>4 DEF Keys, Valid
<1>6. RdhOK' /\ rdh'.pc \in {"idle", "add key", "cut key", "enqueue"}
  <2>1. CASE Entry(e) = "idle"
    BY <1>2, <2>1 DEF RdhOK, Idle
  <2>2. CASE Entry(e) # "idle"
    <3>1. rdh'.pc = Entry(e) /\ rdh'.rd = e.rd /\ rdh'.key = e.sel
      BY <1>2, <2>2
    <3>2. QED
      BY <1>2, <1>3, <1>4, <1>5, <2>2, <3>1 DEF RdhOK
  <2>3. QED
    BY <2>1, <2>2
<1>7. IndexFinds'
  BY <1>2 DEF Inv, IndexFinds, HandleRD, Found, index
<1>8. QED
  BY <1>1, <1>2, <1>6, <1>7 DEF Inv, index

LEMMA AddKeyInv == ASSUME Inv, AddKey PROVE Inv'
<1> DEFINE k == rdh.key
           r == rdh.rd
           l == Grown(byKey[k], r)
<1>1. r \in RDs /\ k \in Keys /\ k \in Selectors /\ byKey[k] \in Lists
  BY DEF Inv, RdhOK, AddKey
<1>2. l \in Lists /\ Elements(l.list) = Elements(byKey[k].list) \cup {r}
  BY <1>1, GrownKeeps
<1>3. byKey' = [byKey EXCEPT ![k] = l] /\ UNCHANGED <<known, feed, keyOf>>
  BY DEF AddKey
<1>4. rdh' = [pc |-> "add rd", rd |-> r, key |-> k] /\ rdh.pc = "add key"
  BY DEF AddKey, Inv, RdhOK
<1> HIDE DEF l
<1>5. byKey' \in [Keys -> Lists]
  BY <1>2, <1>3 DEF Inv
<1>6. \A x \in Keys : Found(x) \subseteq Found(x)'
  <2>1. byKey'[k] = l /\ \A x \in Keys \ {k} : byKey'[x] = byKey[x]
    BY <1>1, <1>3 DEF Inv
  <2>2. \A x : Found(x) = Elements(byKey[x].list) /\ Found(x)' = Elements(byKey'[x].list)
    BY DEF Found, Elements
  <2>3. QED
    BY <1>2, <2>1, <2>2
<1>7. r \in Found(k)'
  <2>1. byKey'[k] = l
    BY <1>1, <1>3 DEF Inv
  <2>2. Found(rdh.key)' = Elements(byKey'[rdh'.key].list) /\ rdh'.key = k
    BY <1>4 DEF Found, Elements
  <2>3. QED
    BY <1>2, <2>1, <2>2
<1>8. RdhOK'
  BY <1>1, <1>4 DEF RdhOK
<1>9. IndexFinds'
  BY <1>3, <1>4, <1>6 DEF Inv, IndexFinds
<1>10. QED
  BY <1>3, <1>4, <1>5, <1>7, <1>8, <1>9 DEF Inv

LEMMA AddRDInv == ASSUME Inv, AddRD PROVE Inv'
<1> DEFINE k == rdh.key
           r == rdh.rd
<1>1. r \in RDs /\ k \in Keys /\ k \in Selectors /\ r \in Found(k)
  BY DEF Inv, RdhOK, AddRD
<1>2. keyOf' = [keyOf EXCEPT ![r] = k] /\ UNCHANGED <<known, feed, byKey>>
  BY DEF AddRD
<1>3. rdh' = [pc |-> "enqueue", rd |-> r, key |-> k] /\ rdh.pc = "add rd"
  BY DEF AddRD, Inv, RdhOK
<1>4. RdhOK'
  BY <1>1, <1>3 DEF RdhOK
<1>5. \A x : Found(x)' = Found(x)
  BY <1>2 DEF Found
<1>6. IndexFinds'
  BY <1>1, <1>2, <1>3, <1>5 DEF Inv, IndexFinds
<1>7. QED
  BY <1>1, <1>2, <1>3, <1>4, <1>6 DEF Inv

LEMMA CutKeyInv == ASSUME Inv, CutKey PROVE Inv'
<1> DEFINE k == rdh.key
           r == rdh.rd
           l == Cut(byKey[k], r)
<1>1. r \in RDs /\ k \in Keys /\ k \in Selectors /\ byKey[k] \in Lists
  BY DEF Inv, RdhOK, CutKey
<1>2. l \in Lists /\ Elements(byKey[k].list) \ {r} \subseteq Elements(l.list)
  BY <1>1, CutKeeps
<1>3. byKey' = [byKey EXCEPT ![k] = l] /\ UNCHANGED <<known, feed, keyOf>>
  BY DEF CutKey
<1>4. rdh' = [pc |-> "cut rd", rd |-> r, key |-> k] /\ rdh.pc = "cut key"
  BY DEF CutKey, Inv, RdhOK
<1> HIDE DEF l
<1>5. byKey' \in [Keys -> Lists]
  BY <1>2, <1>3 DEF Inv
<1>6. ASSUME NEW x \in Keys PROVE Found(x) \ {r} \subseteq Found(x)'
  <2>1. CASE x = k
    <3>1. byKey'[x] = l
      BY <1>1, <1>3, <2>1 DEF Inv
    <3>2. QED
      BY <1>2, <2>1, <3>1 DEF Found, Elements
  <2>2. CASE x # k
    <3>1. byKey'[x] = byKey[x]
      BY <1>3, <2>2 DEF Inv
    <3>2. QED
      BY <3>1 DEF Found
  <2>3. QED
    BY <2>1, <2>2
<1>7. RdhOK'
  BY <1>1, <1>4 DEF RdhOK
<1>8. IndexFinds'
  BY <1>3, <1>4, <1>6 DEF Inv, IndexFinds
<1>9. QED
  BY <1>3, <1>4, <1>5, <1>7, <1>8 DEF Inv

LEMMA CutRDInv == ASSUME Inv, CutRD PROVE Inv'
<1> DEFINE k == rdh.key
           r == rdh.rd
<1>1. r \in RDs /\ k \in Selectors
  BY DEF Inv, RdhOK, CutRD
<1>2. keyOf' = [keyOf EXCEPT ![r] = None] /\ UNCHANGED <<known, feed, byKey>>
  BY DEF CutRD
<1>3. rdh' = [pc |-> "enqueue", rd |-> r, key |-> k] /\ rdh.pc = "cut rd"
  BY DEF CutRD, Inv, RdhOK
<1>4. RdhOK'
  BY <1>1, <1>3 DEF RdhOK
<1>5. \A x : Found(x)' = Found(x)
  BY <1>2 DEF Found
<1>6. IndexFinds'
  BY <1>1, <1>2, <1>3, <1>5 DEF Inv, IndexFinds
<1>7. QED
  BY <1>1, <1>2, <1>3, <1>4, <1>6 DEF Inv

LEMMA EnqueueInv == ASSUME Inv, Enqueue PROVE Inv'
<1>1. rdh' = Idle /\ rdh.pc = "enqueue" /\ UNCHANGED <<known, feed, index>>
  BY DEF Enqueue
<1>2. RdhOK' /\ rdh'.pc = "idle"
  BY <1>1 DEF RdhOK, Idle
<1>3. IndexFinds'
  BY <1>1 DEF Inv, IndexFinds, Found, index
<1>4. QED
  BY <1>1, <1>2, <1>3 DEF Inv, index

LEMMA RestartInv == ASSUME Inv, Restart PROVE Inv'
<1>1. feed' \in Seq(Entries)
  BY AddedOK DEF Inv, Restart
<1>2. RdhOK' /\ rdh'.pc = "idle"
  BY DEF Restart, RdhOK, Idle
<1>3. byKey' \in [Keys -> Lists] /\ keyOf' \in [RDs -> Keys \cup {None}]
  <2>1. NoList \in Lists
    BY EmptySeq DEF NoList, Lists
  <2>2. QED
    BY <2>1 DEF Restart
<1>4. IndexFinds'
  BY DEF Restart, IndexFinds
<1>5. QED
  BY <1>1, <1>2, <1>3, <1>4 DEF Inv, Restart

LEMMA NextInv == Inv /\ [Next]_vars => Inv'
<1>1. SUFFICES ASSUME Inv, [Next]_vars PROVE Inv'
  OBVIOUS
<1>2. ASSUME NEW r \in RDs, Create(r) \/ Edit(r) \/ Delete(r) PROVE Inv'
  BY <1>1, <1>2, UserInv
<1>3. ASSUME UNCHANGED <<known, feed, rdh, index>> PROVE Inv'
  BY <1>1, <1>3, OthersInv DEF Inv
<1>4. ASSUME NEW r \in RDs, Resync(r) \/ Sync(r) PROVE Inv'
  BY <1>3, <1>4 DEF Resync, Sync
<1>5. ASSUME NEW x \in Resources, Write(x) \/ Miss(x) PROVE Inv'
  BY <1>3, <1>5 DEF Write, Miss
<1>6. CASE RDHandler
  BY <1>1, <1>6, HandleInv, AddKeyInv, AddRDInv, CutKeyInv, CutRDInv, EnqueueInv
     DEF RDHandler
<1>7. ASSUME NEW found \in DeletableResources, Discover(found) PROVE Inv'
  BY <1>3, <1>7 DEF Discover
<1>8. ASSUME NEW g \in Gvrs, Reader(g) PROVE Inv'
  BY <1>3, <1>8 DEF Reader, Filter, Lookup, Loop
<1>9. CASE Restart
  BY <1>1, <1>9, RestartInv
<1>10. CASE UNCHANGED vars
  BY <1>3, <1>10 DEF vars
<1>11. QED
  BY <1>1, <1>2, <1>4, <1>5, <1>6, <1>7, <1>8, <1>9, <1>10 DEF Next

(* Whatever RDs come and go, with whatever selectors, and wherever the     *)
(* process ends: the two maps agree, so that an event that EventFilter     *)
(* lets through finds the RD it was let through for, if it names it.       *)
THEOREM IndexAlwaysFinds == Spec => []IndexFinds
<1>1. Inv => IndexFinds
  BY DEF Inv
<1>2. QED
  BY <1>1, InitInv, NextInv, PTL DEF Spec

-----------------------------------------------------------------------------
(* Types: what the arrays, the announcements and the goroutines hold. *)

Events == [res : Resources, changed : BOOLEAN, tombstone : BOOLEAN]

Reads ==
    [pc : {"idle", "lookup", "loop"}, res : Resources \cup {None},
     arr : Seq(RDs), i : Nat, attached : BOOLEAN]

ReadOK(a) ==
    /\ a.pc # "idle" => a.res \in Resources
    /\ a.pc = "loop" => a.i \in 1..Len(a.arr) + 1

KindsOK ==
    /\ \A k \in Keys : Len(byKey[k].list) <= byKey[k].cap
    /\ res \in [Resources -> [n : Nat, there : BOOLEAN]]
    /\ events \in [Gvrs -> Seq(Events)]
    /\ running = handlers
    /\ reader \in [Gvrs -> Reads]
    /\ \A g \in Gvrs : ReadOK(reader[g])
    /\ \A g \in Gvrs \ running : events[g] = <<>> /\ reader[g] = NoRead
    /\ pending \cup disturbed \cup shifted \subseteq RDs /\ missed \subseteq Resources
    /\ synced \in [RDs -> SUBSET (Resources \X Nat)]

TInv == Inv /\ KindsOK

LEMMA NoReadOK == NoRead \in Reads /\ ReadOK(NoRead) /\ NoRead.pc = "idle"
BY EmptySeq DEF NoRead, Reads, ReadOK

LEMMA KindsImplyTypeOK == ASSUME TInv PROVE TypeOK
<1>1. \A i \in 1..Len(feed) : feed[i].rd \in RDs
  <2>1. ASSUME NEW i \in 1..Len(feed) PROVE feed[i].rd \in RDs
    <3>1. feed[i] \in Entries
      BY ElementOfSeq DEF TInv, Inv
    <3>2. QED
      BY <3>1 DEF Entries
  <2>2. QED
    BY <2>1
<1>2. \A k \in Keys : byKey[k].list \in Seq(RDs)
  BY DEF TInv, Inv, Lists
<1>3. \A g \in Gvrs : reader[g].pc = "loop" => reader[g].i \in 1..Len(reader[g].arr) + 1
  BY DEF TInv, KindsOK, ReadOK
<1>4. QED
  BY <1>1, <1>2, <1>3 DEF TypeOK, TInv, Inv, RdhOK, KindsOK

LEMMA InitKinds == ASSUME Init PROVE TInv
<1>1. Inv
  BY InitInv
<1>2. \A k \in Keys : byKey[k] = NoList
  BY DEF Init
<1>3. Len(NoList.list) <= NoList.cap
  BY EmptySeq DEF NoList
<1>4. res \in [Resources -> [n : Nat, there : BOOLEAN]]
  <2>1. [n : {0}, there : BOOLEAN] \subseteq [n : Nat, there : BOOLEAN]
    OBVIOUS
  <2>2. QED
    BY <2>1 DEF Init
<1>5. events \in [Gvrs -> Seq(Events)] /\ \A g \in Gvrs : events[g] = <<>>
  BY EmptySeq DEF Init
<1>6. /\ reader \in [Gvrs -> Reads]
      /\ \A g \in Gvrs : ReadOK(reader[g]) /\ reader[g] = NoRead
  BY NoReadOK DEF Init
<1>7. pending \cup disturbed \cup shifted \subseteq RDs /\ missed \subseteq Resources
      /\ synced \in [RDs -> SUBSET (Resources \X Nat)]
      /\ running = handlers
  BY DEF Init
<1>8. QED
  BY <1>1, <1>2, <1>3, <1>4, <1>5, <1>6, <1>7 DEF TInv, KindsOK

(* The handlers of RDs. *)
LEMMA GrownFits ==
    ASSUME NEW l \in Lists, NEW r \in RDs, Len(l.list) <= l.cap
    PROVE  Len(Grown(l, r).list) <= Grown(l, r).cap
<1>1. /\ Len(l.list) \in Nat /\ l.cap \in Nat
      /\ Len(Append(l.list, r)) = Len(l.list) + 1
  BY AppendProperties, LenProperties DEF Lists
<1>2. QED
  BY <1>1 DEF Grown

LEMMA ShiftedOK ==
    ASSUME NEW s \in Seq(RDs), NEW i \in 1..Len(s)
    PROVE  Shifted(s, i) \in Seq(RDs) /\ Len(Shifted(s, i)) = Len(s)
<1>1. Len(s) \in Nat /\ \A j \in 1..Len(s) : s[j] \in RDs
  BY LenProperties, ElementOfSeq
<1>2. Shifted(s, i) \in [1..Len(s) -> RDs]
  BY <1>1 DEF Shifted
<1>3. QED
  BY <1>1, <1>2, SeqDef, LenProperties

LEMMA CutFits ==
    ASSUME NEW l \in Lists, NEW r \in RDs, Len(l.list) <= l.cap
    PROVE  Len(Cut(l, r).list) <= Cut(l, r).cap
<1> DEFINE s == l.list
           i == First(s, r)
           t == Shifted(s, i)
           u == SubSeq(t, 1, Len(t) - 1)
<1>1. s \in Seq(RDs) /\ Len(s) \in Nat /\ l.cap \in Nat
  BY LenProperties DEF Lists
<1>2. CASE \A j \in 1..Len(s) : s[j] # r
  BY <1>2 DEF Cut
<1>3. CASE ~\A j \in 1..Len(s) : s[j] # r
  <2>1. i \in 1..Len(s)
    BY <1>1, <1>3, FirstFinds
  <2> HIDE DEF i
  <2>2. t \in Seq(RDs) /\ Len(t) = Len(s)
    BY <1>1, <2>1, ShiftedOK
  <2> HIDE DEF t
  <2>3. Cut(l, r) = IF Len(t) = 1 THEN NoList ELSE [l EXCEPT !.list = u]
    BY <1>3 DEF Cut, i, t
  <2>4. CASE Len(t) = 1
    BY <2>3, <2>4, EmptySeq DEF NoList
  <2>5. CASE Len(t) # 1
    <3>1. Len(t) \in Nat /\ Len(t) >= 1
      BY <1>1, <2>1, <2>2
    <3>2. Len(u) <= Len(s)
      <4>1. 1 \in Int /\ Len(t) - 1 \in Int /\ \A j \in 1..Len(t) - 1 : t[j] \in RDs
        BY <2>2, <3>1, ElementOfSeq
      <4>2. Len(u) = IF 1 <= Len(t) - 1 THEN (Len(t) - 1) - 1 + 1 ELSE 0
        BY <4>1, SubSeqProperties
      <4> HIDE DEF u
      <4>3. QED
        BY <1>1, <2>2, <3>1, <4>2
    <3> HIDE DEF u
    <3>3. Cut(l, r).list = u /\ Cut(l, r).cap = l.cap
      BY <2>3, <2>5 DEF Lists
    <3>4. Len(u) \in Int
      <4>1. 1 \in Int /\ Len(t) - 1 \in Int /\ \A j \in 1..Len(t) - 1 : t[j] \in RDs
        BY <2>2, <3>1, ElementOfSeq
      <4>2. u \in Seq(RDs)
        BY <4>1, SubSeqProperties DEF u
      <4>3. QED
        BY <4>2, LenProperties
    <3>5. QED
      BY <1>1, <3>2, <3>3, <3>4
  <2>6. QED
    BY <2>4, <2>5
<1>4. QED
  BY <1>2, <1>3

LEMMA SameKinds ==
    ASSUME TInv, Inv', UNCHANGED <<byKey, res, dynamic, synced>>,
           (pending \cup disturbed \cup shifted)' \subseteq RDs /\ missed' \subseteq Resources
    PROVE  TInv'
BY DEF TInv, KindsOK, dynamic, ReadOK

LEMMA HandlerKinds == ASSUME TInv, RDHandler PROVE TInv'
<1>1. Inv /\ Inv'
  <2>1. Inv
    BY DEF TInv
  <2>2. QED
    BY <2>1, HandleInv, AddKeyInv, AddRDInv, CutKeyInv, CutRDInv, EnqueueInv
       DEF RDHandler
<1>2. CASE HandleRD \/ AddRD \/ CutRD \/ Enqueue
  <2>1. UNCHANGED <<byKey, res, dynamic, synced, history>>
    BY <1>2 DEF HandleRD, AddRD, CutRD, Enqueue, index
  <2>2. pending' \subseteq pending \cup RDs
    BY <1>1, <1>2 DEF HandleRD, AddRD, CutRD, Enqueue, Inv, RdhOK
  <2>3. (pending \cup disturbed \cup shifted)' \subseteq RDs /\ missed' \subseteq Resources
    BY <2>1, <2>2 DEF TInv, KindsOK, history
  <2>4. QED
    BY <1>1, <2>1, <2>3, SameKinds
<1>3. CASE AddKey
  <2> DEFINE k == rdh.key
             l == Grown(byKey[k], rdh.rd)
  <2>1. /\ byKey' = [byKey EXCEPT ![k] = l]
        /\ reader' = [g \in Gvrs |->
              IF g \in Ranging(k) /\ l.cap # byKey[k].cap
              THEN [reader[g] EXCEPT !.attached = FALSE] ELSE reader[g]]
        /\ UNCHANGED <<res, events, handlers, running, pending, synced, history>>
    BY <1>3 DEF AddKey
  <2>2. rdh.rd \in RDs /\ k \in Keys /\ byKey[k] \in Lists
        /\ Len(byKey[k].list) <= byKey[k].cap
    BY <1>1, <1>3 DEF AddKey, Inv, RdhOK, TInv, KindsOK
  <2>3. Len(l.list) <= l.cap
    BY <2>2, GrownFits
  <2> HIDE DEF l
  <2>4. \A x \in Keys : Len(byKey'[x].list) <= byKey'[x].cap
    BY <1>1, <2>1, <2>2, <2>3 DEF Inv, TInv, KindsOK
  <2>5. ASSUME NEW g \in Gvrs
        PROVE  reader'[g] \in Reads /\ ReadOK(reader'[g])
               /\ (reader[g] = NoRead => reader'[g] = NoRead)
    <3>1. reader[g] \in Reads /\ ReadOK(reader[g])
      BY DEF TInv, KindsOK
    <3>2. CASE reader'[g] = reader[g]
      BY <3>1, <3>2
    <3>3. CASE g \in Ranging(k) /\ reader'[g] = [reader[g] EXCEPT !.attached = FALSE]
      <4>1. reader[g].pc = "loop"
        BY <3>3 DEF Ranging
      <4>2. QED
        BY <3>1, <3>3, <4>1, NoReadOK DEF Reads, ReadOK
    <3>4. QED
      BY <2>1, <3>2, <3>3
  <2>6. reader' \in [Gvrs -> Reads]
    BY <2>1, <2>5
  <2>7. QED
    BY <1>1, <2>1, <2>4, <2>5, <2>6 DEF TInv, KindsOK, history
<1>4. CASE CutKey
  <2> DEFINE k == rdh.key
             r == rdh.rd
             s == byKey[k].list
             i == First(s, r)
             hit == IF \E j \in 1..Len(s) : s[j] = r THEN Ranging(k) ELSE {}
             l == Cut(byKey[k], r)
             Moved(a) == IF i < Len(a) THEN Shifted(a, i) ELSE a
  <2>1. /\ byKey' = [byKey EXCEPT ![k] = l]
        /\ reader' = [g \in Gvrs |->
              IF g \in hit THEN [reader[g] EXCEPT !.arr = Moved(reader[g].arr)]
              ELSE reader[g]]
        /\ shifted' = shifted \cup UNION {ToSet(reader[g].arr) : g \in hit}
        /\ UNCHANGED <<res, events, handlers, running, pending, synced, disturbed,
                       missed>>
    BY <1>4 DEF CutKey
  <2>2. r \in RDs /\ k \in Keys /\ byKey[k] \in Lists
        /\ Len(byKey[k].list) <= byKey[k].cap
    BY <1>1, <1>4 DEF CutKey, Inv, RdhOK, TInv, KindsOK
  <2>3. Len(l.list) <= l.cap
    BY <2>2, CutFits
  <2>h. ASSUME NEW g \in hit PROVE g \in Gvrs /\ reader[g].pc = "loop" /\ i \in Nat /\ i >= 1
    <3>1. g \in Ranging(k) /\ \E j \in 1..Len(s) : s[j] = r
      BY <2>h
    <3>2. i \in 1..Len(s)
      BY <2>2, <3>1, FirstFinds DEF Lists
    <3>3. QED
      BY <3>1, <3>2 DEF Ranging
  <2> HIDE DEF l, i, hit
  <2>4. \A x \in Keys : Len(byKey'[x].list) <= byKey'[x].cap
    BY <1>1, <2>1, <2>2, <2>3 DEF Inv, TInv, KindsOK
  <2>5. ASSUME NEW g \in Gvrs
        PROVE  reader'[g] \in Reads /\ ReadOK(reader'[g])
               /\ (reader[g] = NoRead => reader'[g] = NoRead)
    <3>1. reader[g] \in Reads /\ ReadOK(reader[g])
      BY DEF TInv, KindsOK
    <3>2. CASE g \notin hit
      BY <2>1, <3>1, <3>2
    <3>3. CASE g \in hit
      <4>1. reader[g].pc = "loop" /\ i \in Nat /\ i >= 1
        BY <2>h, <3>3
      <4>2. PICK a : a = reader[g].arr
        OBVIOUS
      <4>3. a \in Seq(RDs) /\ Len(a) \in Nat
        BY <3>1, <4>2, LenProperties DEF Reads
      <4>4. Moved(a) \in Seq(RDs) /\ Len(Moved(a)) = Len(a)
        <5>1. CASE i < Len(a)
          <6>1. i \in 1..Len(a)
            BY <4>1, <4>3, <5>1
          <6>2. QED
            BY <4>3, <5>1, <6>1, ShiftedOK
        <5>2. QED
          BY <4>3, <5>1
      <4>5. reader'[g] = [reader[g] EXCEPT !.arr = Moved(a)]
        BY <2>1, <3>3, <4>2
      <4> HIDE DEF Moved
      <4>6. QED
        BY <3>1, <4>1, <4>2, <4>4, <4>5, NoReadOK DEF Reads, ReadOK
    <3>4. QED
      BY <3>2, <3>3
  <2>6. reader' \in [Gvrs -> Reads]
    BY <2>1, <2>5
  <2>7. shifted' \subseteq RDs
    <3>1. ASSUME NEW g \in hit PROVE ToSet(reader[g].arr) \subseteq RDs
      <4>1. reader[g] \in Reads
        BY <2>h, <3>1 DEF TInv, KindsOK
      <4>2. reader[g].arr \in Seq(RDs)
        BY <4>1 DEF Reads
      <4>3. DOMAIN reader[g].arr = 1..Len(reader[g].arr)
            /\ \A j \in 1..Len(reader[g].arr) : reader[g].arr[j] \in RDs
        BY <4>2, LenProperties, ElementOfSeq
      <4>4. QED
        BY <4>3 DEF ToSet
    <3>2. shifted \subseteq RDs
      BY DEF TInv, KindsOK
    <3>3. QED
      BY <2>1, <3>1, <3>2
  <2>8. QED
    BY <1>1, <2>1, <2>4, <2>5, <2>6, <2>7 DEF TInv, KindsOK
<1>5. QED
  BY <1>2, <1>3, <1>4 DEF RDHandler

(* ClusterWideKeyFunc finds the key there is. *)
LEMMA SameKey == ASSUME NEW x \in Resources PROVE ClusterWideKey(x) = x
BY ResourceKeys DEF ClusterWideKey

(* discoverResources. *)
Listed(g) == SetToSeq({x \in Resources : x.gvr = g /\ res[x].there})

LEMMA ListedOK ==
    ASSUME NEW g
    PROVE  /\ Listed(g) \in Seq(Resources)
           /\ \A x \in Resources : x.gvr = g /\ res[x].there =>
                  \E i \in 1..Len(Listed(g)) : Listed(g)[i] = x
<1> DEFINE S == {x \in Resources : x.gvr = g /\ res[x].there}
           t == SetToSeq(S)
<1>1. IsFiniteSet(S)
  BY RoutingConstants, FS_Subset
<1>2. t \in Seq(S) /\ \A x \in S : \E i \in 1..Len(t) : t[i] = x
  BY <1>1, SetToSeqHasAll
<1>3. t \in Seq(Resources)
  <2>1. t \in [1..Len(t) -> S] /\ Len(t) \in Nat
    BY <1>2, LenProperties
  <2>2. t \in [1..Len(t) -> Resources]
    BY <2>1
  <2>3. QED
    BY <2>1, <2>2, SeqDef
<1>4. QED
  BY <1>2, <1>3 DEF Listed

LEMMA DiscoverEvents ==
    ASSUME TInv, NEW found \in DeletableResources, Discover(found)
    PROVE  /\ running' = handlers' /\ running \subseteq running'
           /\ running' \ running \subseteq Fresh(found)
           /\ events' \in [Gvrs -> Seq(Events)]
           /\ \A g \in Gvrs : g \notin running' \ running => events'[g] = events[g]
           /\ \A g \in Gvrs : g \in running' \ running =>
                 \A x \in Resources : x.gvr = g /\ res[x].there =>
                    \E i \in 1..Len(events'[g]) :
                       events'[g][i] = Event(x, TRUE)
<1> DEFINE Heard(g) == [i \in 1..Len(Listed(g)) |-> Event(Listed(g)[i], TRUE)]
<1>1. /\ handlers' = handlers \cup Fresh(found) /\ running' = handlers'
      /\ events' = [g \in Gvrs |->
            IF g \in running' \ running THEN Heard(g) ELSE events[g]]
  BY DEF Discover, ForResource, AppendHandler, Start, Listed
<1>2. running = handlers /\ events \in [Gvrs -> Seq(Events)]
  BY DEF TInv, KindsOK
<1>3. ASSUME NEW g \in Gvrs
      PROVE  /\ Heard(g) \in Seq(Events)
             /\ \A x \in Resources : x.gvr = g /\ res[x].there =>
                   \E i \in 1..Len(Heard(g)) :
                      Heard(g)[i] = Event(x, TRUE)
  <2> DEFINE t == Listed(g)
             e == [i \in 1..Len(t) |-> Event(t[i], TRUE)]
  <2>1. /\ t \in Seq(Resources)
        /\ \A x \in Resources : x.gvr = g /\ res[x].there =>
              \E i \in 1..Len(t) : t[i] = x
    BY ListedOK
  <2> HIDE DEF t
  <2>2. Len(t) \in Nat /\ \A i \in 1..Len(t) : t[i] \in Resources
    BY <2>1, LenProperties, ElementOfSeq
  <2>3. e \in [1..Len(t) -> Events]
    BY <2>2 DEF Event, Events
  <2>5. \A i \in 1..Len(t) : e[i] = Event(t[i], TRUE)
    OBVIOUS
  <2> HIDE DEF e
  <2>4. e \in Seq(Events) /\ Len(e) = Len(t)
    <3>1. e \in Seq(Events)
      BY <2>2, <2>3, SeqDef
    <3>2. DOMAIN e = 1..Len(e) /\ Len(e) \in Nat
      BY <3>1, LenProperties
    <3>3. DOMAIN e = 1..Len(t)
      BY <2>3
    <3>4. QED
      BY <2>2, <3>1, <3>2, <3>3
  <2>6. /\ e \in Seq(Events)
        /\ \A x \in Resources : x.gvr = g /\ res[x].there =>
              \E i \in 1..Len(e) : e[i] = Event(x, TRUE)
    BY <2>1, <2>4, <2>5
  <2>7. QED
    BY <2>6 DEF t, e
<1> HIDE DEF Heard
<1>4. \A g \in Gvrs : events'[g] = IF g \in running' \ running THEN Heard(g)
                                   ELSE events[g]
  BY <1>1
<1>5. events' \in [Gvrs -> Seq(Events)]
  BY <1>1, <1>2, <1>3
<1>6. QED
  BY <1>1, <1>2, <1>3, <1>4, <1>5

LEMMA OutsideKinds ==
    ASSUME TInv, Inv',
           \/ \E r \in RDs : Create(r) \/ Edit(r) \/ Delete(r) \/ Resync(r) \/ Sync(r)
           \/ \E x \in Resources : Write(x) \/ Miss(x)
           \/ \E found \in DeletableResources : Discover(found)
    PROVE  TInv'
<1>1. ASSUME NEW r \in RDs, Create(r) \/ Edit(r) \/ Delete(r) \/ Resync(r)
      PROVE  TInv'
  <2>1. UNCHANGED <<byKey, res, dynamic, synced>>
    BY <1>1 DEF Create, Edit, Delete, Resync, index
  <2>2. (pending \cup disturbed \cup shifted)' \subseteq RDs /\ missed' \subseteq Resources
    BY <1>1 DEF Create, Edit, Delete, Resync, history, TInv, KindsOK
  <2>3. QED
    BY <2>1, <2>2, SameKinds
<1>2. ASSUME NEW r \in RDs, Sync(r) PROVE TInv'
  <2>1. View(r) \in SUBSET (Resources \X Nat)
    BY DEF View, TInv, KindsOK
  <2>2. synced' \in [RDs -> SUBSET (Resources \X Nat)] /\ pending' \subseteq pending
    BY <1>2, <2>1 DEF Sync, TInv, KindsOK
  <2>3. QED
    BY <1>2, <2>2 DEF Sync, TInv, KindsOK, ReadOK, index, dynamic, history
<1>3. ASSUME NEW x \in Resources, Write(x) PROVE TInv'
  <2>1. PICK changed \in BOOLEAN, there \in BOOLEAN :
          /\ res' = [res EXCEPT ![x] = [n |-> IF changed THEN @.n + 1 ELSE @.n,
                                        there |-> there]]
          /\ events' = IF x.gvr \in running
                       THEN [events EXCEPT ![x.gvr] = Append(@, Event(x, changed))]
                       ELSE events
          /\ missed' = IF changed THEN missed \ {x} ELSE missed
    BY <1>3 DEF Write
  <2>2. res' \in [Resources -> [n : Nat, there : BOOLEAN]]
    BY <2>1 DEF TInv, KindsOK
  <2>3. /\ events' \in [Gvrs -> Seq(Events)]
        /\ \A g \in Gvrs \ running : events'[g] = events[g]
    <3>1. Event(x, changed) \in Events
      BY DEF Event, Events
    <3>2. \A g \in Gvrs : events[g] \in Seq(Events)
                          /\ Append(events[g], Event(x, changed)) \in Seq(Events)
      BY <3>1, AppendProperties DEF TInv, KindsOK
    <3>3. QED
      BY <2>1, <3>2 DEF TInv, KindsOK
  <2>4. missed' \subseteq Resources
    BY <2>1 DEF TInv, KindsOK
  <2>5. QED
    BY <1>3, <2>2, <2>3, <2>4 DEF Write, TInv, KindsOK, ReadOK, index
<1>4. ASSUME NEW found \in DeletableResources, Discover(found) PROVE TInv'
  <2>1. /\ running' = handlers' /\ running \subseteq running'
        /\ events' \in [Gvrs -> Seq(Events)]
        /\ \A g \in Gvrs : g \notin running' \ running => events'[g] = events[g]
    BY <1>4, DiscoverEvents
  <2>2. /\ disturbed' \subseteq disturbed \cup RDs
        /\ UNCHANGED <<index, res, reader, pending, synced, shifted, missed>>
    BY <1>4 DEF Discover
  <2>3. QED
    BY <2>1, <2>2 DEF TInv, KindsOK, ReadOK, index
<1>5. ASSUME NEW x \in Resources, Miss(x) PROVE TInv'
  <2>1. /\ res' = [res EXCEPT ![x] = [n |-> @.n + 1, there |-> FALSE]]
        /\ x.gvr \in running /\ missed' = missed \cup {x}
        /\ events' = [events EXCEPT ![x.gvr] = Append(@, Tombstone(x))]
    BY <1>5 DEF Miss
  <2>2. res' \in [Resources -> [n : Nat, there : BOOLEAN]]
    BY <2>1 DEF TInv, KindsOK
  <2>3. /\ events' \in [Gvrs -> Seq(Events)]
        /\ \A g \in Gvrs \ running : events'[g] = events[g]
    <3>1. Tombstone(x) \in Events
      BY DEF Tombstone, Event, Events
    <3>2. \A g \in Gvrs : events[g] \in Seq(Events)
                          /\ Append(events[g], Tombstone(x)) \in Seq(Events)
      BY <3>1, AppendProperties DEF TInv, KindsOK
    <3>3. QED
      BY <2>1, <3>2 DEF TInv, KindsOK
  <2>4. missed' \subseteq Resources
    BY <2>1 DEF TInv, KindsOK
  <2>5. QED
    BY <1>5, <2>2, <2>3, <2>4 DEF Miss, TInv, KindsOK, ReadOK, index
<1>6. QED
  BY <1>1, <1>2, <1>3, <1>4, <1>5

(* The goroutine of the handler of API resource g. *)
LEMMA ReaderKinds ==
    ASSUME TInv, Inv', NEW g \in Gvrs, Reader(g) PROVE TInv'
<1>1. /\ reader[g] \in Reads /\ ReadOK(reader[g])
      /\ \A h \in Gvrs : ReadOK(reader[h])
  BY DEF TInv, KindsOK
<1>a. ASSUME NEW a \in Reads, ReadOK(a), reader' = [reader EXCEPT ![g] = a],
             g \in running, pending' \subseteq RDs,
             events' \in [Gvrs -> Seq(Events)],
             \A h \in Gvrs \ {g} : events'[h] = events[h],
             UNCHANGED <<byKey, res, handlers, running, synced, history>>
      PROVE  TInv'
  <2>1. /\ reader' \in [Gvrs -> Reads] /\ reader'[g] = a
        /\ \A h \in Gvrs \ {g} : reader'[h] = reader[h]
    BY <1>a DEF TInv, KindsOK
  <2>2. \A h \in Gvrs : ReadOK(reader'[h])
    BY <1>1, <1>a, <2>1
  <2>3. QED
    BY <1>a, <2>1, <2>2 DEF TInv, KindsOK, history
<1>2. CASE Filter(g)
  <2> DEFINE e == Head(events[g])
             b == [NoRead EXCEPT !.pc = "lookup", !.res = e.res]
             a == IF EventFilter(e) /\ e.changed THEN b ELSE NoRead
  <2>1. events[g] # <<>> /\ reader' = [reader EXCEPT ![g] = a]
        /\ events' = [events EXCEPT ![g] = Tail(events[g])]
        /\ UNCHANGED <<index, res, handlers, running, pending, synced, history>>
    BY <1>2 DEF Filter
  <2>2. events[g] \in Seq(Events) /\ g \in running
    BY <2>1 DEF TInv, KindsOK
  <2>3. e \in Events /\ Tail(events[g]) \in Seq(Events)
    BY <2>1, <2>2, HeadTailProperties
  <2>4. b \in Reads /\ ReadOK(b)
    <3>1. e.res \in Resources
      BY <2>3 DEF Events
    <3>2. QED
      BY <3>1, NoReadOK DEF Reads, ReadOK
  <2> HIDE DEF b
  <2>5. a \in Reads /\ ReadOK(a)
    BY <2>4, NoReadOK
  <2>6. events' \in [Gvrs -> Seq(Events)] /\ \A h \in Gvrs \ {g} : events'[h] = events[h]
    BY <2>1, <2>3 DEF TInv, KindsOK
  <2> HIDE DEF a
  <2>7. pending' \subseteq RDs /\ byKey' = byKey
    BY <2>1 DEF TInv, KindsOK, index
  <2>8. QED
    BY <1>a, <2>1, <2>2, <2>5, <2>6, <2>7
<1>b. reader[g].pc # "idle" => g \in running
  BY NoReadOK DEF TInv, KindsOK
<1>3. CASE Lookup(g)
  <2> DEFINE l == byKey[ClusterWideKey(reader[g].res)].list
             a == [reader[g] EXCEPT !.pc = "loop", !.i = 1, !.attached = TRUE,
                                    !.arr = l]
  <2>1. reader[g].pc = "lookup" /\ reader' = [reader EXCEPT ![g] = a]
        /\ UNCHANGED <<index, res, events, handlers, running, pending, synced, history>>
    BY <1>3 DEF Lookup, TInv, KindsOK
  <2>2. l \in Seq(RDs) /\ Len(l) \in Nat
    <3>1. reader[g].res \in Resources
      BY <1>1, <2>1 DEF ReadOK
    <3>2. ClusterWideKey(reader[g].res) \in Keys
      BY <3>1, SameKey DEF Keys
    <3>3. QED
      BY <3>2, LenProperties DEF TInv, Inv, Lists
  <2> HIDE DEF l
  <2>3. a \in Reads /\ ReadOK(a)
    <3>1. a \in Reads /\ a.res = reader[g].res /\ a.arr = l /\ a.i = 1
      BY <1>1, <2>2 DEF Reads
    <3>2. reader[g].res \in Resources
      BY <1>1, <2>1 DEF ReadOK
    <3> HIDE DEF a
    <3>3. QED
      BY <2>2, <3>1, <3>2 DEF ReadOK
  <2> HIDE DEF a
  <2>4. pending' \subseteq RDs /\ byKey' = byKey /\ g \in running
        /\ events' \in [Gvrs -> Seq(Events)]
    BY <1>b, <2>1 DEF TInv, KindsOK, index
  <2>5. QED
    BY <1>a, <2>1, <2>3, <2>4
<1>4. CASE Loop(g)
  <2> DEFINE n == reader[g].i
             a == [reader[g] EXCEPT !.i = n + 1]
  <2>1. /\ reader[g].pc = "loop"
        /\ UNCHANGED <<index, res, events, handlers, running, synced, history>>
        /\ \/ reader' = [reader EXCEPT ![g] = NoRead] /\ pending' = pending
           \/ /\ ~(n > Len(reader[g].arr))
              /\ pending' = pending \cup {reader[g].arr[n]}
              /\ reader' = [reader EXCEPT ![g] = a]
    BY <1>4 DEF Loop, TInv, KindsOK
  <2>2. /\ reader[g].arr \in Seq(RDs) /\ Len(reader[g].arr) \in Nat
        /\ n \in 1..Len(reader[g].arr) + 1
    BY <1>1, <2>1, LenProperties DEF Reads, ReadOK
  <2>3. byKey' = byKey /\ g \in running /\ events' \in [Gvrs -> Seq(Events)]
    BY <1>b, <2>1 DEF TInv, KindsOK, index
  <2>4. CASE reader' = [reader EXCEPT ![g] = NoRead] /\ pending' = pending
    <3>1. pending' \subseteq RDs
      BY <2>4 DEF TInv, KindsOK
    <3>2. QED
      BY <1>a, <2>1, <2>3, <2>4, <3>1, NoReadOK
  <2>5. CASE /\ ~(n > Len(reader[g].arr))
             /\ pending' = pending \cup {reader[g].arr[n]}
             /\ reader' = [reader EXCEPT ![g] = a]
    <3>1. n \in 1..Len(reader[g].arr)
      BY <2>2, <2>5
    <3>2. a \in Reads /\ ReadOK(a)
      BY <1>1, <2>1, <2>2, <3>1 DEF Reads, ReadOK
    <3>3. pending' \subseteq RDs
      BY <2>2, <2>5, <3>1, ElementOfSeq DEF TInv, KindsOK
    <3> HIDE DEF a
    <3>4. QED
      BY <1>a, <2>1, <2>3, <2>5, <3>2, <3>3
  <2>6. QED
    BY <2>1, <2>4, <2>5
<1>5. QED
  BY <1>2, <1>3, <1>4 DEF Reader

LEMMA RestartKinds == ASSUME TInv, Inv', Restart PROVE TInv'
<1>1. Len(NoList.list) <= NoList.cap
  BY EmptySeq DEF NoList
<1>2. \A k \in Keys : byKey'[k] = NoList
  BY DEF Restart
<1>3. events' \in [Gvrs -> Seq(Events)] /\ \A g \in Gvrs : events'[g] = <<>>
  BY EmptySeq DEF Restart
<1>4. /\ reader' \in [Gvrs -> Reads]
      /\ \A g \in Gvrs : ReadOK(reader'[g]) /\ reader'[g] = NoRead
  BY NoReadOK DEF Restart
<1>5. /\ running' = handlers' /\ (pending \cup disturbed \cup shifted)' \subseteq RDs /\ missed' \subseteq Resources
      /\ UNCHANGED <<res, synced>>
  BY DEF Restart
<1>6. QED
  BY <1>1, <1>2, <1>3, <1>4, <1>5 DEF TInv, KindsOK

LEMMA NextKinds == ASSUME TInv, [Next]_vars PROVE TInv'
<1>1. Inv'
  BY NextInv DEF TInv
<1>2. CASE UNCHANGED vars
  <2>1. UNCHANGED <<byKey, res, dynamic, synced>>
        /\ (pending \cup disturbed \cup shifted)' \subseteq RDs /\ missed' \subseteq Resources
    BY <1>2 DEF vars, index, history, TInv, KindsOK
  <2>2. QED
    BY <1>1, <2>1, SameKinds
<1>3. QED
  BY <1>1, <1>2, OutsideKinds, HandlerKinds, ReaderKinds, RestartKinds DEF Next

(* Every variable always holds what the Go types allow: no list outgrows   *)
(* its array, and no goroutine runs out of the list it ranges over,        *)
(* although the list is cut in place meanwhile.                            *)
THEOREM TypeCorrect == Spec => []TypeOK
<1>1. Init => TInv
  BY InitKinds
<1>2. TInv /\ [Next]_vars => TInv'
  BY NextKinds
<1>3. TInv => TypeOK
  BY KindsImplyTypeOK
<1>4. QED
  BY <1>1, <1>2, <1>3, PTL DEF Spec

-----------------------------------------------------------------------------
(* The index is current: what the announcements still to be handled will   *)
(* make of the index entry of an RD that nothing disturbed is what the     *)
(* cache says; each announcement takes over where the one before it ends.  *)

Never(s, r) == \A i \in 1..Len(s) : s[i] # r

Once(s, r) ==
    \E i \in 1..Len(s) : s[i] = r /\ \A j \in 1..Len(s) : s[j] = r => j = i

(* In the list of key k, once, and in no other. *)
ListedAs(r, k) ==
    \A x \in Keys :
        IF x = k THEN Once(byKey[x].list, r) ELSE Never(byKey[x].list, r)

KeyIf(s) == IF Valid(s) THEN s ELSE None

(* The key that the cache gives RD r. *)
CacheKey(r) == IF known[r] # None THEN KeyIf(known[r]) ELSE None

(* The key an RD is listed by before and after e is handled. *)
Needs(e) == IF e.op = "delete" THEN KeyIf(e.sel) ELSE None
Leaves(e) == IF e.op = "add" THEN KeyIf(e.sel) ELSE None

(* The key r will have when the handler at work is done. *)
Will(r) ==
    IF rdh.rd = r /\ rdh.pc \in {"add key", "add rd"} THEN rdh.key
    ELSE IF rdh.rd = r /\ rdh.pc \in {"cut key", "cut rd"} THEN None
    ELSE keyOf[r]

(* Between the two writes of a handler. *)
IndexState(r) ==
    IF rdh.rd = r /\ rdh.pc \in {"add key", "add rd", "cut key", "cut rd"}
    THEN /\ rdh.pc = "add key" => keyOf[r] = None /\ ListedAs(r, None)
         /\ rdh.pc = "add rd" => keyOf[r] = None /\ ListedAs(r, rdh.key)
         /\ rdh.pc = "cut key" => keyOf[r] = rdh.key /\ ListedAs(r, rdh.key)
         /\ rdh.pc = "cut rd" => keyOf[r] = rdh.key /\ ListedAs(r, None)
    ELSE ListedAs(r, keyOf[r])

Of(f, r) == {i \in 1..Len(f) : f[i].rd = r}

ChainOf(f, r, w, c) ==
    /\ \A i \in Of(f, r) : f[i].op \in {"add", "delete"}
    /\ \A i \in Of(f, r) : (\A j \in Of(f, r) : j >= i) => Needs(f[i]) = w
    /\ \A i, j \in Of(f, r) :
          i < j /\ (\A k \in Of(f, r) : k <= i \/ k >= j) =>
              Leaves(f[i]) = Needs(f[j])
    /\ \A i \in Of(f, r) : (\A j \in Of(f, r) : j <= i) => Leaves(f[i]) = c
    /\ Of(f, r) = {} => w = c

Chain(r) == ChainOf(feed, r, Will(r), CacheKey(r))

CInv == TInv /\ \A r \in RDs \ disturbed : Chain(r) /\ IndexState(r)

LEMMA ChainAppend ==
    ASSUME NEW f \in Seq(Entries), NEW e \in Entries, NEW r, NEW w, NEW c, NEW d,
           ChainOf(f, r, w, c),
           e.rd # r => d = c,
           e.rd = r => /\ e.op \in {"add", "delete"}
                       /\ Needs(e) = c /\ Leaves(e) = d
    PROVE  ChainOf(Append(f, e), r, w, d)
<1> DEFINE g == Append(f, e)
           n == Len(f) + 1
<1>1. /\ Len(f) \in Nat /\ Len(g) = n /\ g[n] = e
      /\ \A i \in 1..Len(f) : g[i] = f[i]
  BY AppendProperties, LenProperties
<1> HIDE DEF g
<1>2. CASE e.rd # r
  <2>1. Of(g, r) = Of(f, r)
    BY <1>1, <1>2 DEF Of
  <2>2. \A i \in Of(f, r) : g[i] = f[i]
    BY <1>1 DEF Of
  <2>3. ChainOf(g, r, w, d)
    BY <1>2, <2>1, <2>2 DEF ChainOf
  <2>4. QED
    BY <2>3 DEF g
<1>3. CASE e.rd = r
  <2>1. Of(g, r) = Of(f, r) \cup {n}
    BY <1>1, <1>3 DEF Of
  <2>2. \A i \in Of(f, r) : g[i] = f[i] /\ i \in Nat /\ i < n
    BY <1>1 DEF Of
  <2>3. n \in Nat /\ n \notin Of(f, r)
    BY <1>1, <2>2
  <2> HIDE DEF n
  <2>4. /\ \A i \in Of(f, r) : f[i].op \in {"add", "delete"}
        /\ \A i \in Of(f, r) : (\A j \in Of(f, r) : j >= i) => Needs(f[i]) = w
        /\ \A i, j \in Of(f, r) :
              i < j /\ (\A k \in Of(f, r) : k <= i \/ k >= j) =>
                  Leaves(f[i]) = Needs(f[j])
        /\ \A i \in Of(f, r) : (\A j \in Of(f, r) : j <= i) => Leaves(f[i]) = c
        /\ Of(f, r) = {} => w = c
    BY DEF ChainOf
  <2>5. \A i \in Of(g, r) : g[i].op \in {"add", "delete"}
    BY <1>1, <1>3, <2>1, <2>2, <2>4
  <2>6. \A i \in Of(g, r) : (\A j \in Of(g, r) : j >= i) => Needs(g[i]) = w
    BY <1>1, <1>3, <2>1, <2>2, <2>3, <2>4
  <2>7. ASSUME NEW i \in Of(g, r), NEW j \in Of(g, r), i < j,
               \A k \in Of(g, r) : k <= i \/ k >= j
        PROVE  Leaves(g[i]) = Needs(g[j])
    <3>1. CASE j = n
      <4>1. i \in Of(f, r)
        BY <2>1, <2>3, <2>7, <3>1
      <4>2. \A k \in Of(f, r) : k <= i
        BY <2>1, <2>2, <2>3, <2>7, <3>1
      <4>3. QED
        BY <1>1, <1>3, <2>2, <2>4, <3>1, <4>1, <4>2
    <3>2. CASE j # n
      <4>1. j \in Of(f, r) /\ i \in Of(f, r)
        BY <2>1, <2>2, <2>3, <2>7, <3>2
      <4>2. QED
        BY <2>1, <2>2, <2>4, <2>7, <4>1
    <3>3. QED
      BY <3>1, <3>2
  <2>8. \A i \in Of(g, r) : (\A j \in Of(g, r) : j <= i) => Leaves(g[i]) = d
    BY <1>1, <1>3, <2>1, <2>2, <2>3
  <2>9. Of(g, r) # {}
    BY <2>1
  <2>10. ChainOf(g, r, w, d)
    BY <2>5, <2>6, <2>7, <2>8, <2>9 DEF ChainOf
  <2>11. QED
    BY <2>10 DEF g
<1>4. QED
  BY <1>2, <1>3

LEMMA ChainHead ==
    ASSUME NEW f \in Seq(Entries), f # <<>>, NEW r, NEW w, NEW c,
           ChainOf(f, r, w, c), Head(f).rd = r
    PROVE  Head(f).op \in {"add", "delete"} /\ Needs(Head(f)) = w
<1>1. Len(f) \in Nat /\ Len(f) # 0 /\ Head(f) = f[1]
  BY LenProperties, EmptySeq, HeadTailProperties
<1>2. 1 \in Of(f, r) /\ \A j \in Of(f, r) : j >= 1
  BY <1>1 DEF Of
<1>3. QED
  BY <1>1, <1>2 DEF ChainOf

LEMMA ChainTail ==
    ASSUME NEW f \in Seq(Entries), f # <<>>, NEW r, NEW w, NEW c, NEW v,
           ChainOf(f, r, w, c),
           Head(f).rd # r => v = w,
           Head(f).rd = r => v = Leaves(Head(f))
    PROVE  ChainOf(Tail(f), r, v, c)
<1> DEFINE t == Tail(f)
<1>1. /\ Len(f) \in Nat /\ Len(f) # 0 /\ Head(f) = f[1]
      /\ Len(t) = Len(f) - 1 /\ \A i \in 1..Len(t) : t[i] = f[i + 1]
  BY LenProperties, EmptySeq, HeadTailProperties
<1> HIDE DEF t
<1>2. \A i \in Of(t, r) : i \in Nat /\ i >= 1 /\ i + 1 \in Of(f, r) /\ t[i] = f[i + 1]
  BY <1>1 DEF Of
<1>3. \A k \in Of(f, r) : k \in Nat /\ (k = 1 \/ (k > 1 /\ k - 1 \in Of(t, r)))
  BY <1>1 DEF Of
<1>4. 1 \in Of(f, r) <=> Head(f).rd = r
  BY <1>1 DEF Of
<1>5. /\ \A i \in Of(f, r) : f[i].op \in {"add", "delete"}
      /\ \A i \in Of(f, r) : (\A j \in Of(f, r) : j >= i) => Needs(f[i]) = w
      /\ \A i, j \in Of(f, r) :
            i < j /\ (\A k \in Of(f, r) : k <= i \/ k >= j) =>
                Leaves(f[i]) = Needs(f[j])
      /\ \A i \in Of(f, r) : (\A j \in Of(f, r) : j <= i) => Leaves(f[i]) = c
      /\ Of(f, r) = {} => w = c
  BY DEF ChainOf
<1>6. \A i \in Of(t, r) : t[i].op \in {"add", "delete"}
  BY <1>2, <1>5
<1>7. ASSUME NEW i \in Of(t, r), \A j \in Of(t, r) : j >= i
      PROVE  Needs(t[i]) = v
  <2>1. \A k \in Of(f, r) : k = 1 \/ k >= i + 1
    BY <1>2, <1>3, <1>7
  <2>2. CASE Head(f).rd = r
    <3>1. 1 \in Of(f, r) /\ i + 1 \in Of(f, r) /\ 1 < i + 1
      BY <1>2, <1>4, <2>2
    <3>2. \A k \in Of(f, r) : k <= 1 \/ k >= i + 1
      BY <2>1
    <3>3. Leaves(f[1]) = Needs(f[i + 1])
      BY <1>5, <3>1, <3>2
    <3>4. QED
      BY <1>1, <1>2, <1>7, <2>2, <3>3
  <2>3. CASE Head(f).rd # r
    <3>1. \A k \in Of(f, r) : k >= i + 1
      BY <1>4, <2>1, <2>3
    <3>2. Needs(f[i + 1]) = w
      BY <1>2, <1>5, <3>1
    <3>3. QED
      BY <1>2, <2>3, <3>2
  <2>4. QED
    BY <2>2, <2>3
<1>8. ASSUME NEW i \in Of(t, r), NEW j \in Of(t, r), i < j,
             \A k \in Of(t, r) : k <= i \/ k >= j
      PROVE  Leaves(t[i]) = Needs(t[j])
  <2>1. i + 1 \in Of(f, r) /\ j + 1 \in Of(f, r) /\ i + 1 < j + 1
    BY <1>2, <1>8
  <2>2. ASSUME NEW k \in Of(f, r) PROVE k <= i + 1 \/ k >= j + 1
    <3>1. i \in Nat /\ j \in Nat /\ k \in Nat
      BY <1>2, <1>3
    <3>2. k = 1 \/ k - 1 <= i \/ k - 1 >= j
      BY <1>3, <1>8
    <3>3. QED
      BY <3>1, <3>2
  <2>3. Leaves(f[i + 1]) = Needs(f[j + 1])
    BY <1>5, <2>1, <2>2
  <2>4. QED
    BY <1>2, <2>3
<1>9. ASSUME NEW i \in Of(t, r), \A j \in Of(t, r) : j <= i
      PROVE  Leaves(t[i]) = c
  <2>1. \A k \in Of(f, r) : k <= i + 1
    BY <1>2, <1>3, <1>9
  <2>2. QED
    BY <1>2, <1>5, <2>1
<1>10. Of(t, r) = {} => v = c
  <2>1. SUFFICES ASSUME Of(t, r) = {} PROVE v = c
    OBVIOUS
  <2>2. \A k \in Of(f, r) : k = 1
    BY <1>3, <2>1
  <2>3. QED
    BY <1>1, <1>4, <1>5, <2>2
<1>11. ChainOf(t, r, v, c)
  BY <1>6, <1>7, <1>8, <1>9, <1>10 DEF ChainOf
<1>12. QED
  BY <1>11 DEF t

(* append and Cut change how often the RD they are about is listed, and    *)
(* nothing else.                                                           *)
LEMMA GrownLists ==
    ASSUME NEW l \in Lists, NEW r \in RDs
    PROVE  /\ Never(l.list, r) => Once(Grown(l, r).list, r)
           /\ \A q \in RDs \ {r} :
                 /\ Never(l.list, q) => Never(Grown(l, r).list, q)
                 /\ Once(l.list, q) => Once(Grown(l, r).list, q)
<1> DEFINE s == l.list
           n == Len(s) + 1
           t == Append(s, r)
<1>1. /\ s \in Seq(RDs) /\ Len(s) \in Nat /\ Len(t) = n /\ t[n] = r
      /\ \A i \in 1..Len(s) : t[i] = s[i]
  BY AppendProperties, LenProperties DEF Lists
<1>2. Grown(l, r).list = t
  BY DEF Grown
<1> HIDE DEF t, s
<1>3. 1..Len(t) = 1..Len(s) \cup {n} /\ n \notin 1..Len(s)
  BY <1>1
<1>4. Never(s, r) => Once(t, r)
  BY <1>1, <1>3 DEF Never, Once
<1>5. \A q \in RDs \ {r} : Never(s, q) => Never(t, q)
  BY <1>1, <1>3 DEF Never
<1>6. ASSUME NEW q \in RDs \ {r}, Once(s, q) PROVE Once(t, q)
  <2>1. PICK i \in 1..Len(s) : s[i] = q /\ \A j \in 1..Len(s) : s[j] = q => j = i
    BY <1>6 DEF Once
  <2>2. i \in 1..Len(t) /\ t[i] = q /\ \A j \in 1..Len(t) : t[j] = q => j = i
    BY <1>1, <1>3, <1>6, <2>1
  <2>3. QED
    BY <2>2 DEF Once
<1>7. QED
  BY <1>2, <1>4, <1>5, <1>6 DEF s

LEMMA CutShape ==
    ASSUME NEW l \in Lists, NEW r \in RDs, ~Never(l.list, r)
    PROVE  LET s == l.list
               i == First(s, r)
               u == Cut(l, r).list
           IN  /\ i \in 1..Len(s) /\ s[i] = r /\ Len(s) \in Nat
               /\ Len(u) = Len(s) - 1
               /\ \A k \in 1..Len(u) : u[k] = IF k < i THEN s[k] ELSE s[k + 1]
<1> DEFINE s == l.list
           n == Len(s)
           i == First(s, r)
           t == Shifted(s, i)
           u == Cut(l, r).list
           v == SubSeq(t, 1, n - 1)
<1>1. s \in Seq(RDs) /\ n \in Nat
  BY LenProperties DEF Lists
<1>2. i \in 1..n /\ s[i] = r
  BY <1>1, FirstFinds DEF Never
<1> HIDE DEF i
<1>3. /\ t \in Seq(RDs) /\ Len(t) = n
      /\ \A j \in 1..n : t[j] = IF j < i \/ j = n THEN s[j] ELSE s[j + 1]
  BY <1>1, <1>2, ShiftedOK DEF Shifted
<1> HIDE DEF t
<1>4. Cut(l, r) = IF n = 1 THEN NoList ELSE [l EXCEPT !.list = v]
  BY <1>3 DEF Cut, Never, i, t
<1>5. CASE n = 1
  <2>1. u = <<>>
    BY <1>4, <1>5 DEF NoList
  <2>2. Len(u) = 0
    BY <2>1, EmptySeq
  <2>3. QED
    BY <1>1, <1>2, <1>5, <2>2 DEF i
<1>6. CASE n # 1
  <2>1. n > 1
    <3>1. \A m \in Nat : \A k \in 1..m : m # 1 => m > 1
      OBVIOUS
    <3> HIDE DEF n
    <3>2. QED
      BY <1>1, <1>2, <1>6, <3>1
  <2>2. Len(v) = n - 1 /\ \A k \in 1..n - 1 : v[k] = t[k]
    <3>1. 1 \in Int /\ n - 1 \in Int /\ \A j \in 1..n - 1 : t[j] \in RDs
      BY <1>1, <1>3, ElementOfSeq
    <3>2. /\ Len(v) = IF 1 <= n - 1 THEN (n - 1) - 1 + 1 ELSE 0
          /\ \A j \in 1..(n - 1) - 1 + 1 : v[j] = t[1 + j - 1]
      BY <3>1, SubSeqProperties
    <3> HIDE DEF v
    <3>3. QED
      BY <1>1, <2>1, <3>2
  <2> HIDE DEF v
  <2>3. u = v
    BY <1>4, <1>6 DEF Lists
  <2> HIDE DEF u
  <2>4. \A k \in 1..Len(u) : u[k] = IF k < i THEN s[k] ELSE s[k + 1]
    BY <1>1, <1>3, <2>1, <2>2, <2>3
  <2>5. Len(u) = n - 1
    BY <2>2, <2>3
  <2>6. QED
    BY <1>1, <1>2, <2>4, <2>5 DEF i, u
<1>7. QED
  BY <1>5, <1>6

LEMMA CutLists ==
    ASSUME NEW l \in Lists, NEW r \in RDs
    PROVE  /\ Once(l.list, r) => Never(Cut(l, r).list, r)
           /\ \A q \in RDs \ {r} :
                 /\ Never(l.list, q) => Never(Cut(l, r).list, q)
                 /\ Once(l.list, q) => Once(Cut(l, r).list, q)
<1>1. CASE Never(l.list, r)
  <2>1. Cut(l, r) = l
    BY <1>1 DEF Cut, Never
  <2>2. ~Once(l.list, r)
    BY <1>1 DEF Never, Once
  <2>3. QED
    BY <2>1, <2>2
<1>2. CASE ~Never(l.list, r)
  <2>1. PICK s, i, u : s = l.list /\ i = First(s, r) /\ u = Cut(l, r).list
    OBVIOUS
  <2>2. /\ i \in 1..Len(s) /\ s[i] = r /\ Len(s) \in Nat
        /\ Len(u) = Len(s) - 1
        /\ \A k \in 1..Len(u) : u[k] = IF k < i THEN s[k] ELSE s[k + 1]
    BY <1>2, <2>1, CutShape
  <2>3. ASSUME Once(s, r), NEW k \in 1..Len(u) PROVE u[k] # r
    <3>1. \A j \in 1..Len(s) : s[j] = r => j = i
      BY <2>2, <2>3 DEF Once
    <3>2. k \in 1..Len(s) /\ k + 1 \in 1..Len(s)
      BY <2>2, <2>3
    <3>3. QED
      BY <2>2, <3>1, <3>2
  <2>4. ASSUME NEW q \in RDs \ {r}, Never(s, q), NEW k \in 1..Len(u)
        PROVE  u[k] # q
    <3>1. k \in 1..Len(s) /\ k + 1 \in 1..Len(s)
      BY <2>2, <2>4
    <3>2. QED
      BY <2>2, <2>4, <3>1 DEF Never
  <2>5. ASSUME NEW q \in RDs \ {r}, Once(s, q) PROVE Once(u, q)
    <3>1. PICK j \in 1..Len(s) : s[j] = q /\ \A k \in 1..Len(s) : s[k] = q => k = j
      BY <2>5 DEF Once
    <3>2. j # i
      BY <2>2, <2>5, <3>1
    <3>3. PICK m : m = IF j < i THEN j ELSE j - 1
      OBVIOUS
    <3>4. m \in 1..Len(u) /\ u[m] = q
      <4>1. CASE j < i
        BY <2>2, <3>1, <3>3, <4>1
      <4>2. CASE ~(j < i)
        <5>1. m = j - 1 /\ m \in 1..Len(u) /\ ~(m < i) /\ m + 1 = j
          BY <2>2, <3>1, <3>2, <3>3, <4>2
        <5>2. QED
          BY <2>2, <3>1, <5>1
      <4>3. QED
        BY <4>1, <4>2
    <3>5. ASSUME NEW k \in 1..Len(u), u[k] = q PROVE k = m
      <4>1. k \in 1..Len(s) /\ k + 1 \in 1..Len(s) /\ k \in Nat
        BY <2>2, <3>5
      <4>2. IF k < i THEN k = j ELSE k + 1 = j
        BY <2>2, <3>1, <3>5, <4>1
      <4>3. QED
        BY <2>2, <3>1, <3>3, <4>1, <4>2
    <3>6. QED
      BY <3>4, <3>5 DEF Once
  <2>6. QED
    BY <2>1, <2>3, <2>4, <2>5 DEF Never
<1>3. QED
  BY <1>1, <1>2

LEMMA NoneIsNoKey == None \notin Keys
BY RoutingConstants DEF Keys

LEMMA SameLists ==
    ASSUME UNCHANGED byKey, NEW r, NEW k, ListedAs(r, k)
    PROVE  ListedAs(r, k)'
BY DEF ListedAs, Once, Never

(* The list of one key changes. *)
LEMMA ListChanges ==
    ASSUME CInv, NEW k \in Keys, NEW l, byKey' = [byKey EXCEPT ![k] = l]
    PROVE  /\ byKey'[k] = l
           /\ \A x \in Keys \ {k} : byKey'[x] = byKey[x]
BY DEF CInv, TInv, Inv

LEMMA AddKeyLists ==
    ASSUME CInv, AddKey
    PROVE  /\ ListedAs(rdh.rd, None) => ListedAs(rdh.rd, rdh.key)'
           /\ \A r \in RDs \ {rdh.rd} : \A x \in Keys \cup {None} :
                 ListedAs(r, x) => ListedAs(r, x)'
<1>1. PICK k, q, b : k = rdh.key /\ q = rdh.rd /\ b = byKey[k]
  OBVIOUS
<1>2. k \in Keys /\ q \in RDs /\ b \in Lists
  BY <1>1 DEF CInv, TInv, Inv, RdhOK, AddKey
<1>3. PICK l : l = Grown(b, q)
  OBVIOUS
<1>4. byKey' = [byKey EXCEPT ![k] = l] /\ rdh'.key = k
  BY <1>1, <1>3 DEF AddKey, CInv, TInv, Inv, RdhOK
<1>5. byKey'[k] = l /\ \A x \in Keys \ {k} : byKey'[x] = byKey[x]
  BY <1>2, <1>4, ListChanges
<1>6. /\ Never(b.list, q) => Once(l.list, q)
      /\ \A r \in RDs \ {q} : /\ Never(b.list, r) => Never(l.list, r)
                              /\ Once(b.list, r) => Once(l.list, r)
  BY <1>2, <1>3, GrownLists
<1>7. ASSUME ListedAs(q, None), NEW x \in Keys
      PROVE  IF x = k THEN Once(byKey'[x].list, q) ELSE Never(byKey'[x].list, q)
  <2>1. Never(byKey[x].list, q)
    BY <1>7, NoneIsNoKey DEF ListedAs
  <2>2. QED
    BY <1>1, <1>5, <1>6, <2>1
<1>8. ASSUME NEW r \in RDs \ {q}, NEW y, ListedAs(r, y), NEW x \in Keys
      PROVE  IF x = y THEN Once(byKey'[x].list, r) ELSE Never(byKey'[x].list, r)
  <2>1. IF x = y THEN Once(byKey[x].list, r) ELSE Never(byKey[x].list, r)
    BY <1>8 DEF ListedAs
  <2>2. QED
    BY <1>1, <1>5, <1>6, <2>1
<1>9. (ListedAs(q, None) => ListedAs(q, k)')
      /\ \A r \in RDs \ {q} : \A x \in Keys \cup {None} :
            ListedAs(r, x) => ListedAs(r, x)'
  BY <1>7, <1>8 DEF ListedAs, Once, Never
<1>10. ListedAs(rdh.rd, rdh.key)' <=> ListedAs(q, k)'
  <2>1. rdh'.rd = q /\ rdh'.key = k
    BY <1>1 DEF AddKey, CInv, TInv, Inv, RdhOK
  <2>2. QED
    BY <2>1 DEF ListedAs, Once, Never
<1>11. QED
  BY <1>1, <1>9, <1>10

LEMMA CutKeyLists ==
    ASSUME CInv, CutKey
    PROVE  /\ ListedAs(rdh.rd, rdh.key) => ListedAs(rdh.rd, None)'
           /\ \A r \in RDs \ {rdh.rd} : \A x \in Keys \cup {None} :
                 ListedAs(r, x) => ListedAs(r, x)'
<1>1. PICK k, q, b : k = rdh.key /\ q = rdh.rd /\ b = byKey[k]
  OBVIOUS
<1>2. k \in Keys /\ q \in RDs /\ b \in Lists
  BY <1>1 DEF CInv, TInv, Inv, RdhOK, CutKey
<1>3. PICK l : l = Cut(b, q)
  OBVIOUS
<1>4. byKey' = [byKey EXCEPT ![k] = l] /\ rdh'.rd = q
  BY <1>1, <1>3 DEF CutKey, CInv, TInv, Inv, RdhOK
<1>5. byKey'[k] = l /\ \A x \in Keys \ {k} : byKey'[x] = byKey[x]
  BY <1>2, <1>4, ListChanges
<1>6. /\ Once(b.list, q) => Never(l.list, q)
      /\ \A r \in RDs \ {q} : /\ Never(b.list, r) => Never(l.list, r)
                              /\ Once(b.list, r) => Once(l.list, r)
  BY <1>2, <1>3, CutLists
<1>7. ASSUME ListedAs(q, k), NEW x \in Keys
      PROVE  Never(byKey'[x].list, q)
  <2>1. IF x = k THEN Once(byKey[x].list, q) ELSE Never(byKey[x].list, q)
    BY <1>7 DEF ListedAs
  <2>2. QED
    BY <1>1, <1>5, <1>6, <2>1
<1>8. ASSUME NEW r \in RDs \ {q}, NEW y, ListedAs(r, y), NEW x \in Keys
      PROVE  IF x = y THEN Once(byKey'[x].list, r) ELSE Never(byKey'[x].list, r)
  <2>1. IF x = y THEN Once(byKey[x].list, r) ELSE Never(byKey[x].list, r)
    BY <1>8 DEF ListedAs
  <2>2. QED
    BY <1>1, <1>5, <1>6, <2>1
<1>9. ListedAs(q, k) => ListedAs(q, None)'
  BY <1>7, NoneIsNoKey DEF ListedAs, Once, Never
<1>10. \A r \in RDs \ {q} : \A x \in Keys \cup {None} :
          ListedAs(r, x) => ListedAs(r, x)'
  BY <1>8 DEF ListedAs, Once, Never
<1>11. QED
  BY <1>1, <1>4, <1>9, <1>10

(* Steps that leave the index and the handlers at work alone. *)
LEMMA IndexStateSame ==
    ASSUME UNCHANGED <<rdh, byKey, keyOf>>, NEW r, IndexState(r)
    PROVE  IndexState(r)' /\ Will(r)' = Will(r)
<1>1. \A k : ListedAs(r, k) => ListedAs(r, k)'
  BY DEF ListedAs, Once, Never
<1>2. Will(r)' = Will(r)
  BY DEF Will
<1>3. QED
  BY <1>1, <1>2 DEF IndexState

LEMMA ChainSame ==
    ASSUME UNCHANGED feed, NEW r, known'[r] = known[r], Will(r)' = Will(r), Chain(r)
    PROVE  Chain(r)'
<1>1. CacheKey(r)' = CacheKey(r)
  BY DEF CacheKey
<1>2. PICK w, c : w = Will(r) /\ c = CacheKey(r)
  OBVIOUS
<1>3. ChainOf(feed, r, w, c)
  BY <1>2 DEF Chain
<1>4. ChainOf(feed, r, w, c)'
  BY <1>3 DEF ChainOf, Of, Needs, Leaves, KeyIf, Valid
<1>5. QED
  BY <1>1, <1>2, <1>4 DEF Chain

(* A handler is called. *)
LEMMA HandleChain ==
    ASSUME CInv, HandleRD, NEW r \in RDs \ disturbed
    PROVE  Chain(r)' /\ IndexState(r)'
<1>1. /\ rdh.pc = "idle" /\ feed # <<>> /\ feed' = Tail(feed)
      /\ rdh' = IF Entry(Head(feed)) = "idle" THEN Idle
                ELSE [pc |-> Entry(Head(feed)), rd |-> Head(feed).rd,
                      key |-> Head(feed).sel]
      /\ UNCHANGED <<known, byKey, keyOf>>
  BY DEF HandleRD, index
<1>2. /\ feed \in Seq(Entries) /\ Chain(r) /\ IndexState(r)
      /\ keyOf \in [RDs -> Keys \cup {None}] /\ None \notin Keys
  BY NoneIsNoKey DEF CInv, TInv, Inv
<1>3. PICK w, c, v : w = keyOf[r] /\ c = CacheKey(r) /\ v = Will(r)'
  OBVIOUS
<1>4. Will(r) = w /\ ListedAs(r, w)
  BY <1>1, <1>2, <1>3 DEF Will, IndexState
<1>5. ChainOf(feed, r, w, c)
  BY <1>2, <1>3, <1>4 DEF Chain
<1>6. \A k : ListedAs(r, k) => ListedAs(r, k)'
  BY <1>1 DEF ListedAs, Once, Never
<1>7. PICK e : e = Head(feed)
  OBVIOUS
<1>8. e \in Entries
  BY <1>1, <1>2, <1>7, HeadTailProperties
<1>9. IndexState(r)' /\ (e.rd # r => v = w) /\ (e.rd = r => v = Leaves(e))
  <2>1. CASE e.rd # r
    <3>1. rdh'.rd # r \/ rdh'.pc = "idle"
      BY <1>1, <1>7, <2>1 DEF Idle
    <3>2. QED
      BY <1>1, <1>3, <1>4, <1>6, <2>1, <3>1 DEF IndexState, Will
  <2>2. CASE e.rd = r
    <3>1. e.op \in {"add", "delete"} /\ Needs(e) = w
      BY <1>1, <1>2, <1>5, <1>7, <2>2, ChainHead
    <3>2. CASE Valid(e.sel)
      <4>1. Entry(e) = IF e.op = "add" THEN "add key" ELSE "cut key"
        BY <3>1, <3>2 DEF Entry
      <4>2. rdh'.pc = Entry(e) /\ rdh'.rd = r /\ rdh'.key = e.sel
        BY <1>1, <1>7, <2>2, <4>1
      <4>3. CASE e.op = "add"
        <5>1. w = None /\ v = e.sel /\ Leaves(e) = e.sel
          BY <1>3, <3>1, <3>2, <4>1, <4>2, <4>3 DEF Needs, Leaves, KeyIf, Will
        <5>2. IndexState(r)'
          BY <1>1, <1>3, <1>4, <1>6, <4>1, <4>2, <4>3, <5>1 DEF IndexState
        <5>3. QED
          BY <2>2, <5>1, <5>2
      <4>4. CASE e.op = "delete"
        <5>1. w = e.sel /\ v = None /\ Leaves(e) = None
          BY <1>3, <3>1, <3>2, <4>1, <4>2, <4>4 DEF Needs, Leaves, KeyIf, Will
        <5>2. IndexState(r)'
          BY <1>1, <1>3, <1>4, <1>6, <4>1, <4>2, <4>4, <5>1 DEF IndexState
        <5>3. QED
          BY <2>2, <5>1, <5>2
      <4>5. QED
        BY <3>1, <4>3, <4>4
    <3>3. CASE ~Valid(e.sel)
      <4>1. Entry(e) = "idle" /\ Needs(e) = None /\ Leaves(e) = None
        BY <3>1, <3>3 DEF Entry, Needs, Leaves, KeyIf
      <4>2. rdh'.pc = "idle"
        BY <1>1, <1>7, <4>1 DEF Idle
      <4>3. v = w
        BY <1>1, <1>3, <4>2 DEF Will
      <4>4. IndexState(r)'
        BY <1>1, <1>3, <1>4, <1>6, <4>2 DEF IndexState
      <4>5. QED
        BY <2>2, <3>1, <4>1, <4>3, <4>4
    <3>4. QED
      BY <3>2, <3>3
  <2>3. QED
    BY <2>1, <2>2
<1>10. ChainOf(Tail(feed), r, v, c)
  <2>1. /\ Head(feed).rd # r => v = w
        /\ Head(feed).rd = r => v = Leaves(Head(feed))
    BY <1>7, <1>9
  <2>2. QED
    BY <1>1, <1>2, <1>5, <2>1, ChainTail
<1>11. ChainOf(feed, r, v, c)'
  BY <1>1, <1>10 DEF ChainOf, Of, Needs, Leaves, KeyIf, Valid
<1>12. CacheKey(r)' = c
  BY <1>1, <1>3 DEF CacheKey
<1>13. QED
  BY <1>3, <1>9, <1>11, <1>12 DEF Chain

(* The writes of a handler. *)
LEMMA WriteChain ==
    ASSUME CInv, AddKey \/ AddRD \/ CutKey \/ CutRD \/ Enqueue,
           NEW r \in RDs \ disturbed
    PROVE  Chain(r)' /\ IndexState(r)'
<1>1. /\ Chain(r) /\ IndexState(r) /\ known'[r] = known[r] /\ UNCHANGED feed
      /\ keyOf \in [RDs -> Keys \cup {None}] /\ rdh.rd \in RDs
      /\ rdh.key \in Selectors /\ keyOf[r] \in Keys \cup {None}
  BY DEF CInv, TInv, Inv, RdhOK, AddKey, AddRD, CutKey, CutRD, Enqueue
<1>2. SUFFICES IndexState(r)' /\ Will(r)' = Will(r)
  BY <1>1, ChainSame
<1>3. rdh = [pc |-> rdh.pc, rd |-> rdh.rd, key |-> rdh.key]
  BY DEF CInv, TInv, Inv, RdhOK
<1>a. UNCHANGED byKey => \A k : ListedAs(r, k) => ListedAs(r, k)'
  BY DEF ListedAs, Once, Never
<1>4. CASE AddKey
  <2>1. /\ rdh.pc = "add key" /\ rdh'.pc = "add rd" /\ rdh'.rd = rdh.rd
        /\ rdh'.key = rdh.key /\ keyOf' = keyOf
    BY <1>3, <1>4 DEF AddKey
  <2>2. /\ ListedAs(rdh.rd, None) => ListedAs(rdh.rd, rdh.key)'
        /\ \A x \in Keys \cup {None} : r # rdh.rd /\ ListedAs(r, x) => ListedAs(r, x)'
    BY <1>4, AddKeyLists
  <2>3. Will(r)' = Will(r)
    BY <2>1 DEF Will
  <2>4. CASE r = rdh.rd
    <3>1. ListedAs(r, rdh.key)' /\ keyOf'[r] = None
      <4>1. keyOf[r] = None /\ ListedAs(r, None)
        BY <1>1, <2>1, <2>4 DEF IndexState
      <4>2. ListedAs(rdh.rd, rdh.key)'
        BY <2>2, <2>4, <4>1
      <4>3. QED
        <5>1. rdh'.rd = r /\ rdh'.key = rdh.key
          BY <2>1, <2>4
        <5>2. ListedAs(r, rdh.key)'
          BY <4>2, <5>1 DEF ListedAs
        <5>3. QED
          BY <2>1, <2>4, <4>1, <5>2
    <3>2. QED
      BY <2>1, <2>3, <2>4, <3>1 DEF IndexState
  <2>5. CASE r # rdh.rd
    <3>1. ListedAs(r, keyOf[r])'
      <4>1. PICK x : x = keyOf[r]
        OBVIOUS
      <4>2. ListedAs(r, x)'
        BY <1>1, <2>2, <2>5, <4>1 DEF IndexState
      <4>3. QED
        BY <2>1, <4>1, <4>2
    <3>2. QED
      BY <2>1, <2>3, <2>5, <3>1 DEF IndexState
  <2>6. QED
    BY <2>4, <2>5
<1>5. CASE AddRD
  <2>1. /\ rdh.pc = "add rd" /\ rdh'.pc = "enqueue" /\ UNCHANGED byKey
        /\ keyOf' = [keyOf EXCEPT ![rdh.rd] = rdh.key]
    BY <1>3, <1>5 DEF AddRD
  <2>2. keyOf'[r] = IF r = rdh.rd THEN rdh.key ELSE keyOf[r]
    BY <1>1, <2>1
  <2>3. ListedAs(r, keyOf'[r])
    BY <1>1, <2>1, <2>2 DEF IndexState
  <2>4. Will(r)' = Will(r)
    BY <2>1, <2>2 DEF Will
  <2>5. QED
    BY <1>a, <2>1, <2>3, <2>4 DEF IndexState
<1>6. CASE CutKey
  <2>1. /\ rdh.pc = "cut key" /\ rdh'.pc = "cut rd" /\ rdh'.rd = rdh.rd
        /\ rdh'.key = rdh.key /\ keyOf' = keyOf
    BY <1>3, <1>6 DEF CutKey
  <2>2. /\ ListedAs(rdh.rd, rdh.key) => ListedAs(rdh.rd, None)'
        /\ \A x \in Keys \cup {None} : r # rdh.rd /\ ListedAs(r, x) => ListedAs(r, x)'
    BY <1>6, CutKeyLists
  <2>3. Will(r)' = Will(r)
    BY <2>1 DEF Will
  <2>4. CASE r = rdh.rd
    <3>1. ListedAs(r, None)' /\ keyOf'[r] = rdh'.key
      <4>1. keyOf[r] = rdh.key /\ ListedAs(r, rdh.key)
        BY <1>1, <2>1, <2>4 DEF IndexState
      <4>2. ListedAs(rdh.rd, None)'
        BY <2>2, <2>4, <4>1
      <4>3. QED
        <5>1. rdh'.rd = r /\ rdh'.key = rdh.key
          BY <2>1, <2>4
        <5>2. ListedAs(r, None)'
          BY <4>2, <5>1 DEF ListedAs
        <5>3. QED
          BY <2>1, <2>4, <4>1, <5>2
    <3>2. QED
      BY <2>1, <2>3, <2>4, <3>1 DEF IndexState
  <2>5. CASE r # rdh.rd
    <3>1. ListedAs(r, keyOf[r])'
      <4>1. PICK x : x = keyOf[r]
        OBVIOUS
      <4>2. ListedAs(r, x)'
        BY <1>1, <2>2, <2>5, <4>1 DEF IndexState
      <4>3. QED
        BY <2>1, <4>1, <4>2
    <3>2. QED
      BY <2>1, <2>3, <2>5, <3>1 DEF IndexState
  <2>6. QED
    BY <2>4, <2>5
<1>7. CASE CutRD
  <2>1. /\ rdh.pc = "cut rd" /\ rdh'.pc = "enqueue" /\ UNCHANGED byKey
        /\ keyOf' = [keyOf EXCEPT ![rdh.rd] = None]
    BY <1>3, <1>7 DEF CutRD
  <2>2. keyOf'[r] = IF r = rdh.rd THEN None ELSE keyOf[r]
    BY <1>1, <2>1
  <2>3. ListedAs(r, keyOf'[r])
    BY <1>1, <2>1, <2>2 DEF IndexState
  <2>4. Will(r)' = Will(r)
    BY <2>1, <2>2 DEF Will
  <2>5. QED
    BY <1>a, <2>1, <2>3, <2>4 DEF IndexState
<1>8. CASE Enqueue
  <2>1. rdh.pc = "enqueue" /\ rdh'.pc = "idle" /\ UNCHANGED <<byKey, keyOf>>
    BY <1>8 DEF Enqueue, Idle, index
  <2>2. ListedAs(r, keyOf[r])
    BY <1>1, <2>1 DEF IndexState
  <2>3. QED
    BY <1>a, <2>1, <2>2 DEF IndexState, Will
<1>9. QED
  BY <1>4, <1>5, <1>6, <1>7, <1>8

(* A user's write is announced. *)
LEMMA AnnounceChain ==
    ASSUME CInv, NEW e \in Entries, feed' = Append(feed, e),
           UNCHANGED <<rdh, byKey, keyOf>>, NEW r \in RDs \ disturbed,
           e.rd # r => known'[r] = known[r],
           e.rd = r => /\ e.op \in {"add", "delete"}
                       /\ Needs(e) = CacheKey(r) /\ Leaves(e) = CacheKey(r)'
    PROVE  Chain(r)' /\ IndexState(r)'
<1>1. feed \in Seq(Entries) /\ Chain(r) /\ IndexState(r)
  BY DEF CInv, TInv, Inv
<1>2. IndexState(r)' /\ Will(r)' = Will(r)
  BY <1>1, IndexStateSame
<1>3. PICK w, c, d : w = Will(r) /\ c = CacheKey(r) /\ d = CacheKey(r)'
  OBVIOUS
<1>4. ChainOf(feed, r, w, c)
  BY <1>1, <1>3 DEF Chain
<1>5. e.rd # r => d = c
  BY <1>3 DEF CacheKey
<1>6. e.rd = r => e.op \in {"add", "delete"} /\ Needs(e) = c /\ Leaves(e) = d
  BY <1>3
<1>7. ChainOf(Append(feed, e), r, w, d)
  BY <1>1, <1>4, <1>5, <1>6, ChainAppend
<1>8. PICK g : g = Append(feed, e)
  OBVIOUS
<1>9. ChainOf(g, r, w, d) /\ feed' = g
  BY <1>7, <1>8
<1>10. ChainOf(feed, r, w, d)'
  BY ONLY <1>9 DEF ChainOf, Of, Needs, Leaves, KeyIf, Valid
<1>11. QED
  BY <1>2, <1>3, <1>10 DEF Chain

LEMMA UserChain ==
    ASSUME CInv, NEW q \in RDs, Create(q) \/ Edit(q) \/ Delete(q),
           NEW r \in RDs \ disturbed'
    PROVE  Chain(r)' /\ IndexState(r)'
<1>1. r \in RDs \ disturbed /\ UNCHANGED <<rdh, byKey, keyOf>>
  BY DEF Create, Edit, Delete, history, index
<1>2. known \in [RDs -> Selectors \cup {None}] /\ None \notin Selectors
  BY RoutingConstants DEF CInv, TInv, Inv
<1>3. CASE Create(q)
  <2>1. PICK s \in Selectors : known' = [known EXCEPT ![q] = s] /\ Announce("add", q, s)
    BY <1>3 DEF Create
  <2>2. PICK e : e = [op |-> "add", rd |-> q, sel |-> s]
    OBVIOUS
  <2>3. /\ e \in Entries /\ feed' = Append(feed, e) /\ e.rd = q /\ e.op = "add"
        /\ e.sel = s
    BY <2>1, <2>2 DEF Entries, Announce
  <2>4. e.rd # r => known'[r] = known[r]
    BY <1>2, <2>1, <2>3
  <2>5. e.rd = r => Needs(e) = CacheKey(r) /\ Leaves(e) = CacheKey(r)'
    <3>1. e.rd = r => known[r] = None /\ known'[r] = s /\ s # None
      BY <1>2, <1>3, <2>1, <2>3 DEF Create
    <3>2. QED
      BY <2>3, <3>1 DEF Needs, Leaves, CacheKey, KeyIf, Valid
  <2>6. QED
    BY <1>1, <2>3, <2>4, <2>5, AnnounceChain
<1>4. CASE Edit(q)
  <2>1. PICK s \in Selectors :
          known' = [known EXCEPT ![q] = s] /\ Announce("update", q, s)
    BY <1>4 DEF Edit
  <2>2. PICK e : e = [op |-> "update", rd |-> q, sel |-> s]
    OBVIOUS
  <2>3. e \in Entries /\ feed' = Append(feed, e) /\ e.rd = q
    BY <2>1, <2>2 DEF Entries, Announce
  <2>4. q # r
    BY <1>4 DEF Edit
  <2>5. known'[r] = known[r]
    BY <1>2, <2>1, <2>4
  <2>6. QED
    BY <1>1, <2>3, <2>4, <2>5, AnnounceChain
<1>5. CASE Delete(q)
  <2>1. known[q] # None /\ known' = [known EXCEPT ![q] = None]
    BY <1>5 DEF Delete
  <2>2. CASE Announce("delete", q, known[q])
    <3>1. PICK e : e = [op |-> "delete", rd |-> q, sel |-> known[q]]
      OBVIOUS
    <3>2. /\ e \in Entries /\ feed' = Append(feed, e) /\ e.rd = q
          /\ e.op = "delete" /\ e.sel = known[q]
      BY <1>2, <2>1, <2>2, <3>1 DEF Entries, Announce
    <3>3. e.rd # r => known'[r] = known[r]
      BY <1>2, <2>1, <3>2
    <3>4. e.rd = r => Needs(e) = CacheKey(r) /\ Leaves(e) = CacheKey(r)'
      <4>1. e.rd = r => known'[r] = None /\ known[r] # None
        BY <1>2, <2>1, <3>2
      <4>2. QED
        BY <3>2, <4>1 DEF Needs, Leaves, CacheKey, KeyIf, Valid
    <3>5. QED
      BY <1>1, <3>2, <3>3, <3>4, AnnounceChain
  <2>3. CASE Announce("lost", q, None) /\ disturbed' = disturbed \cup {q}
    <3>1. PICK e : e = [op |-> "lost", rd |-> q, sel |-> None]
      OBVIOUS
    <3>2. e \in Entries /\ feed' = Append(feed, e) /\ e.rd = q
      BY <2>3, <3>1 DEF Entries, Announce
    <3>3. q # r
      BY <2>3
    <3>4. known'[r] = known[r]
      BY <1>2, <2>1, <3>3
    <3>5. QED
      BY <1>1, <3>2, <3>3, <3>4, AnnounceChain
  <2>4. QED
    BY <1>5, <2>2, <2>3 DEF Delete
<1>6. QED
  BY <1>3, <1>4, <1>5

(* What else happens. *)
LEMMA OtherChain ==
    ASSUME CInv, UNCHANGED <<known, feed, rdh, byKey, keyOf>>,
           NEW r \in RDs \ disturbed
    PROVE  Chain(r)' /\ IndexState(r)'
<1>1. Chain(r) /\ IndexState(r)
  BY DEF CInv
<1>2. IndexState(r)' /\ Will(r)' = Will(r)
  BY <1>1, IndexStateSame
<1>3. QED
  BY <1>1, <1>2, ChainSame

(* A start: every RD there is was announced once, and the index is empty.  *)
LEMMA StartChain ==
    ASSUME known \in [RDs -> Selectors \cup {None}], NEW r \in RDs
    PROVE  ChainOf(Added(SetToSeq({q \in RDs : known[q] # None})), r, None, CacheKey(r))
<1> DEFINE S == {q \in RDs : known[q] # None}
           t == SetToSeq(S)
           f == Added(t)
<1>1. IsFiniteSet(S)
  BY RoutingConstants, FS_Subset
<1>2. /\ t \in Seq(S) /\ \A x \in S : \E i \in 1..Len(t) : t[i] = x
      /\ \A i, j \in 1..Len(t) : t[i] = t[j] => i = j
  BY <1>1, SetToSeqHasAll
<1> HIDE DEF t
<1>3. Len(t) \in Nat /\ \A i \in 1..Len(t) : t[i] \in S
  BY <1>2, LenProperties, ElementOfSeq
<1>4. /\ Len(f) = Len(t)
      /\ \A i \in 1..Len(t) : f[i].rd = t[i] /\ f[i].op = "add" /\ f[i].sel = known[t[i]]
  <2>1. f \in Seq(Entries)
    BY AddedOK DEF t
  <2>2. DOMAIN f = 1..Len(f) /\ DOMAIN f = 1..Len(t) /\ Len(f) \in Nat
    BY <2>1, LenProperties DEF Added
  <2>3. Len(f) = Len(t)
    BY <1>3, <2>2
  <2>4. QED
    BY <2>3 DEF Added
<1> HIDE DEF f
<1>5. Of(f, r) = {i \in 1..Len(t) : t[i] = r}
  BY <1>4 DEF Of
<1>6. \A i \in Of(f, r) :
         /\ f[i].op = "add" /\ Needs(f[i]) = None /\ i \in Nat
         /\ Leaves(f[i]) = CacheKey(r)
  BY <1>3, <1>4, <1>5 DEF Needs, Leaves, CacheKey
<1>7. \A i, j \in Of(f, r) : i = j
  BY <1>2, <1>5
<1>8. Of(f, r) = {} => CacheKey(r) = None
  BY <1>2, <1>5 DEF CacheKey
<1>9. ChainOf(f, r, None, CacheKey(r))
  BY <1>6, <1>7, <1>8 DEF ChainOf
<1>10. QED
  BY <1>9 DEF f, t

LEMMA EmptyIndex ==
    ASSUME NEW r, \A x \in Keys : byKey[x] = NoList PROVE ListedAs(r, None)
<1>1. Len(NoList.list) = 0
  BY EmptySeq DEF NoList
<1>2. QED
  BY <1>1, NoneIsNoKey DEF ListedAs, Never

LEMMA InitChain == ASSUME Init PROVE CInv
<1>1. TInv
  BY InitKinds
<1>2. ASSUME NEW r \in RDs PROVE Chain(r) /\ IndexState(r)
  <2>1. rdh.pc = "idle" /\ keyOf[r] = None /\ \A x \in Keys : byKey[x] = NoList
    BY DEF Init, Idle
  <2>2. Will(r) = None /\ IndexState(r)
    BY <2>1, EmptyIndex DEF Will, IndexState
  <2>3. ChainOf(feed, r, None, CacheKey(r))
    BY StartChain DEF Init
  <2>4. QED
    BY <2>2, <2>3 DEF Chain
<1>3. QED
  BY <1>1, <1>2 DEF CInv

LEMMA RestartChain == ASSUME CInv, Restart, NEW r \in RDs PROVE Chain(r)' /\ IndexState(r)'
<1>1. rdh'.pc = "idle" /\ keyOf'[r] = None /\ \A x \in Keys : byKey'[x] = NoList
  BY DEF Restart, Idle
<1>2. Len(NoList.list) = 0
  BY EmptySeq DEF NoList
<1>3. ListedAs(r, None)'
  BY <1>1, <1>2, NoneIsNoKey DEF ListedAs, Never
<1>4. Will(r)' = None /\ IndexState(r)'
  BY <1>1, <1>3 DEF Will, IndexState
<1>5. /\ feed' = Added(SetToSeq({q \in RDs : known[q] # None})) /\ known' = known
      /\ known \in [RDs -> Selectors \cup {None}]
  BY DEF Restart, CInv, TInv, Inv
<1>6. PICK c : c = CacheKey(r)
  OBVIOUS
<1>7. ChainOf(feed', r, None, c)
  BY <1>5, <1>6, StartChain
<1>8. ChainOf(feed, r, None, c)'
  BY <1>7 DEF ChainOf, Of, Needs, Leaves, KeyIf, Valid
<1>9. CacheKey(r)' = c
  BY <1>5, <1>6 DEF CacheKey
<1>10. QED
  BY <1>4, <1>8, <1>9 DEF Chain

LEMMA NextChain == ASSUME CInv, [Next]_vars PROVE CInv'
<1>1. TInv'
  BY NextKinds DEF CInv
<1>2. ASSUME NEW r \in RDs \ disturbed' PROVE Chain(r)' /\ IndexState(r)'
  <2>1. CASE Restart
    BY <2>1, RestartChain
  <2>2. CASE \E q \in RDs : Create(q) \/ Edit(q) \/ Delete(q)
    BY <2>2, UserChain
  <2>3. CASE RDHandler
    <3>1. disturbed' = disturbed
      BY <2>3 DEF RDHandler, HandleRD, AddKey, AddRD, CutKey, CutRD, Enqueue, history
    <3>2. QED
      BY <2>3, <3>1, HandleChain, WriteChain DEF RDHandler
  <2>4. CASE \/ \E q \in RDs : Resync(q) \/ Sync(q)
             \/ \E x \in Resources : Write(x) \/ Miss(x)
             \/ \E found \in DeletableResources : Discover(found)
             \/ \E g \in Gvrs : Reader(g)
             \/ UNCHANGED vars
    <3>1. UNCHANGED <<known, feed, rdh, byKey, keyOf>> /\ disturbed \subseteq disturbed'
      BY <2>4 DEF Resync, Sync, Write, Miss, Discover, Reader, Filter, Lookup, Loop, index,
                  history, vars
    <3>2. QED
      BY <3>1, OtherChain
  <2>5. QED
    BY <2>1, <2>2, <2>3, <2>4 DEF Next
<1>3. QED
  BY <1>1, <1>2 DEF CInv

LEMMA ListedOften ==
    ASSUME NEW s \in Seq(RDs), NEW r
    PROVE  /\ Never(s, r) => Cardinality({i \in 1..Len(s) : s[i] = r}) = 0
           /\ Once(s, r) => Cardinality({i \in 1..Len(s) : s[i] = r}) = 1
<1> DEFINE S == {i \in 1..Len(s) : s[i] = r}
<1>1. ASSUME Never(s, r) PROVE Cardinality(S) = 0
  <2>1. S = {}
    BY <1>1 DEF Never
  <2>2. QED
    BY <2>1, FS_EmptySet
<1>2. ASSUME Once(s, r) PROVE Cardinality(S) = 1
  <2>1. PICK i \in 1..Len(s) : s[i] = r /\ \A j \in 1..Len(s) : s[j] = r => j = i
    BY <1>2 DEF Once
  <2>2. S = {i}
    BY <2>1
  <2>3. QED
    BY <2>2, FS_Singleton
<1>3. QED
  BY <1>1, <1>2

LEMMA NothingAnnounced ==
    ASSUME CInv, NEW r \in RDs \ disturbed, ~Announced(r)
    PROVE  keyOf[r] = CacheKey(r) /\ ListedAs(r, keyOf[r])
<1>1. Of(feed, r) = {} /\ rdh.rd # r
  BY DEF Of, Announced
<1>2. Chain(r) /\ IndexState(r)
  BY DEF CInv
<1>3. Will(r) = keyOf[r] /\ ListedAs(r, keyOf[r])
  BY <1>1, <1>2 DEF Will, IndexState
<1>4. Will(r) = CacheKey(r)
  BY <1>1, <1>2 DEF Chain, ChainOf
<1>5. QED
  BY <1>3, <1>4

LEMMA ChainImpliesCurrent == ASSUME CInv PROVE IndexIsCurrent
<1>1. ASSUME NEW r \in RDs \ disturbed, ~Announced(r), NEW key,
             key = IF known[r] # None /\ Valid(known[r]) THEN known[r] ELSE None
      PROVE  /\ keyOf[r] = key
             /\ \A k \in Keys :
                   Cardinality({i \in 1..Len(byKey[k].list) : byKey[k].list[i] = r})
                     = IF k = key THEN 1 ELSE 0
  <2>1. key = CacheKey(r)
    BY <1>1 DEF CacheKey, KeyIf
  <2>2. keyOf[r] = key /\ ListedAs(r, key)
    BY <1>1, <2>1, NothingAnnounced
  <2>3. ASSUME NEW k \in Keys
        PROVE  Cardinality({i \in 1..Len(byKey[k].list) : byKey[k].list[i] = r})
                 = IF k = key THEN 1 ELSE 0
    <3>1. PICK s : s = byKey[k].list
      OBVIOUS
    <3>2. s \in Seq(RDs)
      BY <3>1 DEF CInv, TInv, Inv, Lists
    <3>3. IF k = key THEN Once(s, r) ELSE Never(s, r)
      BY <2>2, <3>1 DEF ListedAs
    <3>4. Cardinality({i \in 1..Len(s) : s[i] = r}) = IF k = key THEN 1 ELSE 0
      BY <3>2, <3>3, ListedOften
    <3>5. QED
      BY <3>1, <3>4
  <2>4. QED
    BY <2>2, <2>3
<1>2. QED
  BY <1>1 DEF IndexIsCurrent

(* Once the handlers have nothing left to do for an RD, the two maps say   *)
(* of it what the informer's cache says: it is found by the key of its     *)
(* selector, once, and by no other; and not at all when it is gone or its  *)
(* selector has no key.  For every order of creations and deletions,       *)
(* handlers and crashes; an edited selector and a missed deletion are the  *)
(* exceptions.                                                             *)
THEOREM IndexStaysCurrent == Spec => []IndexIsCurrent
<1>1. Init => CInv
  BY InitChain
<1>2. CInv /\ [Next]_vars => CInv'
  BY NextChain
<1>3. CInv => IndexIsCurrent
  BY ChainImpliesCurrent
<1>4. QED
  BY <1>1, <1>2, <1>3, PTL DEF Spec

-----------------------------------------------------------------------------
(* No change is lost: where a change that an RD has not seen is.           *)

Heard(x) == \E i \in 1..Len(events[x.gvr]) :
               events[x.gvr][i] = Event(x, TRUE)

InLoop(r, x) ==
    /\ reader[x.gvr].pc = "loop" /\ reader[x.gvr].res = x
    /\ \E i \in reader[x.gvr].i..Len(reader[x.gvr].arr) : reader[x.gvr].arr[i] = r

LookedUp(x) == reader[x.gvr].pc = "lookup" /\ reader[x.gvr].res = x

LInv ==
    /\ CInv
    /\ rdh.pc = "idle" => rdh.rd = None
    /\ NoLostChange

LEMMA UnderwayIs ==
    ASSUME NEW r, NEW x
    PROVE  Underway(r, x) <=> \/ r \in pending \/ Announced(r)
                              \/ x.gvr \notin running
                              \/ Heard(x) \/ LookedUp(x) \/ InLoop(r, x)
BY DEF Underway, Heard, LookedUp, InLoop

LEMMA ResourceIs ==
    ASSUME NEW x \in Resources
    PROVE  x.gvr \in Gvrs /\ x.gvr # None /\ x \in Keys /\ x # None
BY ResourceKeys, RoutingConstants DEF Keys

(* What a sync sees of x. *)
Seen(s, m) == {<<x, m[x].n>> : x \in {y \in Resources : Selects(s, y) /\ m[y].there}}

LEMMA SeenOf ==
    ASSUME NEW s, NEW m, NEW x \in Resources
    PROVE  {v \in Seen(s, m) : v[1] = x} =
               IF Selects(s, x) /\ m[x].there THEN {<<x, m[x].n>>} ELSE {}
BY DEF Seen

LEMMA BehindSame ==
    ASSUME NEW r, NEW x \in Resources, known'[r] = known[r], res'[x] = res[x],
           synced'[r] = synced[r]
    PROVE  Behind(r, x)' <=> Behind(r, x)
<1>1. View(r) = Seen(known[r], res) /\ View(r)' = Seen(known'[r], res')
  BY DEF View, Seen, Selects
<1>2. PICK s, m, o : s = known[r] /\ m = res /\ o = res'
  OBVIOUS
<1>3. {v \in Seen(s, o) : v[1] = x} = {v \in Seen(s, m) : v[1] = x}
  BY <1>2, SeenOf
<1>4. View(r) = Seen(s, m) /\ View(r)' = Seen(s, o)
  BY <1>1, <1>2
<1>5. Behind(r, x)' <=> {v \in synced'[r] : v[1] = x} # {v \in View(r)' : v[1] = x}
  BY DEF Behind
<1>6. QED
  BY <1>3, <1>4, <1>5 DEF Behind

LEMMA StillUnderway ==
    ASSUME NEW r, NEW x, Underway(r, x),
           r \in pending => r \in pending',
           Announced(r) => Announced(r)' \/ r \in pending',
           x.gvr \in running' => x.gvr \in running,
           Heard(x) => Heard(x)', reader'[x.gvr] = reader[x.gvr]
    PROVE  Underway(r, x)'
<1>1. Underway(r, x)' <=> \/ r \in pending' \/ Announced(r)'
                          \/ x.gvr \notin running'
                          \/ Heard(x)' \/ LookedUp(x)' \/ InLoop(r, x)'
  BY DEF Underway, Heard, LookedUp, InLoop
<1>2. LookedUp(x)' <=> LookedUp(x)
  BY DEF LookedUp
<1>3. InLoop(r, x)' <=> InLoop(r, x)
  BY DEF InLoop
<1>4. QED
  BY <1>1, <1>2, <1>3, UnderwayIs

(* An RD that names x, and for which nothing is announced, is found for x. *)
LEMMA NamedIsFound ==
    ASSUME CInv, NEW r \in RDs \ disturbed, NEW x \in Resources,
           known[r] = x, ~Announced(r)
    PROVE  keyOf[r] = x /\ \E i \in 1..Len(byKey[x].list) : byKey[x].list[i] = r
<1>1. x.gvr # None /\ x \in Keys /\ x # None
  BY ResourceIs
<1>2. CacheKey(r) = x
  BY <1>1 DEF CacheKey, KeyIf, Valid
<1>3. keyOf[r] = x /\ ListedAs(r, x)
  BY <1>2, NothingAnnounced
<1>4. QED
  BY <1>1, <1>3 DEF ListedAs, Once

Letters == STRING \cup Gvrs \cup {"/"}

LEMMA OwnPrefix == ASSUME NEW x \in Resources PROVE HasPrefix(x, x)
<1>1. x.gvr \in Gvrs /\ x.ns \in STRING /\ x.name \in Seq(STRING)
  BY ResourceKeys
<1>2. PICK s : s = WideKeyToString(x)
  OBVIOUS
<1>3. s \in Seq(Letters)
  <2>1. <<x.gvr, "/", x.ns, "/">> \in Seq(Letters)
    BY <1>1 DEF Letters
  <2>2. x.name \in Seq(Letters)
    <3>1. x.name \in [1..Len(x.name) -> STRING] /\ Len(x.name) \in Nat
      BY <1>1, LenProperties
    <3>2. x.name \in [1..Len(x.name) -> Letters]
      BY <3>1 DEF Letters
    <3>3. QED
      BY <3>1, <3>2, SeqDef
  <2>3. <<x.gvr, "/", x.ns, "/">> \o x.name \in Seq(Letters)
    BY <2>1, <2>2, ConcatProperties
  <2>4. QED
    BY <1>2, <2>3 DEF WideKeyToString
<1>4. IsPrefix(s, s)
  BY <1>3, LenProperties DEF IsPrefix
<1>5. QED
  BY <1>2, <1>4 DEF HasPrefix

LEMMA WasUnderway ==
    ASSUME LInv, NEW r \in RDs, r \notin disturbed, r \notin shifted,
           NEW x \in Resources, x \notin missed, known[r] = x, Watched(x), Behind(r, x)
    PROVE  Underway(r, x)
BY DEF LInv, NoLostChange

(* Announcements are not forgotten when another one is made. *)
LEMMA StillAnnounced ==
    ASSUME CInv, NEW e \in Entries, feed' = Append(feed, e), UNCHANGED rdh, NEW r
    PROVE  /\ Announced(r) => Announced(r)'
           /\ e.rd = r => Announced(r)'
<1>1. PICK g : g = Append(feed, e)
  OBVIOUS
<1>2. feed \in Seq(Entries)
  BY DEF CInv, TInv, Inv
<1>3. /\ Len(feed) \in Nat /\ Len(g) = Len(feed) + 1 /\ g[Len(feed) + 1] = e
      /\ \A i \in 1..Len(feed) : g[i] = feed[i]
  BY <1>1, <1>2, AppendProperties, LenProperties
<1>4. 1..Len(g) = 1..Len(feed) \cup {Len(feed) + 1} /\ feed' = g
  BY <1>1, <1>3
<1>5. QED
  BY <1>3, <1>4 DEF Announced

LEMMA UserServed ==
    ASSUME LInv, NEW q \in RDs, Create(q) \/ Edit(q) \/ Delete(q) \/ Resync(q),
           NEW r \in RDs, r \notin disturbed', r \notin shifted',
           NEW x \in Resources, x \notin missed', known'[r] = x, Watched(x),
           Behind(r, x)'
    PROVE  Underway(r, x)'
<1>1. /\ CInv /\ known \in [RDs -> Selectors \cup {None}]
  BY DEF LInv, CInv, TInv, Inv
<1>2. /\ UNCHANGED <<rdh, res, events, running, reader, synced>>
      /\ pending \subseteq pending' /\ r \notin disturbed /\ r \notin shifted
      /\ x \notin missed
  BY DEF Create, Edit, Delete, Resync, dynamic, history
<1>3. ASSUME known'[r] = known[r], Announced(r) => Announced(r)' PROVE Underway(r, x)'
  <2>1. Behind(r, x)
    BY <1>2, <1>3, BehindSame
  <2>2. Underway(r, x)
    BY <1>2, <1>3, <2>1, WasUnderway
  <2>3. Heard(x) => Heard(x)'
    BY <1>2 DEF Heard
  <2>4. QED
    BY <1>2, <1>3, <2>2, <2>3, StillUnderway
<1>4. CASE Resync(q)
  <2>1. known' = known /\ feed' = feed
    BY <1>4 DEF Resync
  <2>2. Announced(r) => Announced(r)'
    BY <1>2, <2>1 DEF Announced
  <2>3. QED
    BY <1>3, <2>1, <2>2
<1>5. CASE Create(q) \/ Edit(q) \/ Delete(q)
  <2>1. PICK e \in Entries : feed' = Append(feed, e) /\ e.rd = q
    <3>1. CASE Create(q) \/ Edit(q)
      <4>1. PICK op \in {"add", "update"}, s \in Selectors : Announce(op, q, s)
        BY <3>1 DEF Create, Edit
      <4>2. PICK e : e = [op |-> op, rd |-> q, sel |-> s]
        OBVIOUS
      <4>3. e \in Entries /\ feed' = Append(feed, e) /\ e.rd = q
        BY <4>1, <4>2 DEF Announce, Entries
      <4>4. QED
        BY <4>3
    <3>2. CASE Delete(q)
      <4>1. PICK op, s : /\ Announce(op, q, s)
                         /\ \/ op = "delete" /\ s \in Selectors
                            \/ op = "lost" /\ s = None
        BY <1>1, <3>2 DEF Delete
      <4>2. PICK e : e = [op |-> op, rd |-> q, sel |-> s]
        OBVIOUS
      <4>3. e \in Entries /\ feed' = Append(feed, e) /\ e.rd = q
        BY <4>1, <4>2 DEF Announce, Entries
      <4>4. QED
        BY <4>3
    <3>3. QED
      BY <1>5, <3>1, <3>2
  <2>2. /\ Announced(r) => Announced(r)'
        /\ q = r => Announced(r)'
    BY <1>1, <1>2, <2>1, StillAnnounced
  <2>3. CASE q = r
    BY <2>2, <2>3 DEF Underway, Announced
  <2>4. CASE q # r
    <3>1. known'[r] = known[r]
      <4>1. \E s : known' = [known EXCEPT ![q] = s]
        BY <1>5 DEF Create, Edit, Delete
      <4>2. QED
        BY <1>1, <2>4, <4>1
    <3>2. QED
      BY <1>3, <2>2, <3>1
  <2>5. QED
    BY <2>3, <2>4
<1>6. QED
  BY <1>4, <1>5

LEMMA SyncServed ==
    ASSUME LInv, NEW q \in RDs, Sync(q),
           NEW r \in RDs, r \notin disturbed', r \notin shifted',
           NEW x \in Resources, x \notin missed', known'[r] = x, Watched(x),
           Behind(r, x)'
    PROVE  Underway(r, x)'
<1>1. /\ UNCHANGED <<known, feed, rdh, res, events, running, reader, history>>
      /\ pending' = pending \ {q} /\ synced' = [synced EXCEPT ![q] = View(q)]
      /\ synced \in [RDs -> SUBSET (Resources \X Nat)]
  BY DEF Sync, dynamic, history, LInv, CInv, TInv, KindsOK
<1>2. q # r
  <2>1. SUFFICES ASSUME q = r PROVE FALSE
    OBVIOUS
  <2>2. synced'[r] = View(r)
    BY <1>1, <2>1
  <2>3. View(r)' = View(r)
    BY <1>1 DEF View, Selects
  <2>4. QED
    BY <2>2, <2>3 DEF Behind
<1>3. synced'[r] = synced[r] /\ Behind(r, x)
  <2>1. synced'[r] = synced[r]
    BY <1>1, <1>2
  <2>2. QED
    BY <1>1, <2>1, BehindSame
<1>4. Underway(r, x)
  BY <1>1, <1>3, WasUnderway DEF history
<1>5. (Heard(x) => Heard(x)') /\ (Announced(r) => Announced(r)')
  BY <1>1 DEF Heard, Announced
<1>6. QED
  BY <1>1, <1>2, <1>4, <1>5, StillUnderway

LEMMA WriteServed ==
    ASSUME LInv, NEW y \in Resources, Write(y),
           NEW r \in RDs, r \notin disturbed', r \notin shifted',
           NEW x \in Resources, x \notin missed', known'[r] = x, Watched(x),
           Behind(r, x)'
    PROVE  Underway(r, x)'
<1>1. PICK changed \in BOOLEAN, there \in BOOLEAN :
        /\ ~changed => there /\ res[y].there
        /\ res' = [res EXCEPT ![y] = [n |-> IF changed THEN @.n + 1 ELSE @.n,
                                      there |-> there]]
        /\ events' = IF y.gvr \in running
                     THEN [events EXCEPT ![y.gvr] = Append(@, Event(y, changed))]
                     ELSE events
        /\ missed' = IF changed THEN missed \ {y} ELSE missed
  BY DEF Write
<1>2. /\ UNCHANGED <<known, feed, rdh, running, reader, pending, synced, disturbed, shifted>>
      /\ res \in [Resources -> [n : Nat, there : BOOLEAN]]
      /\ events \in [Gvrs -> Seq(Events)] /\ x.gvr \in Gvrs /\ y.gvr \in Gvrs
  BY ResourceIs DEF Write, LInv, CInv, TInv, KindsOK, history
<1>3. PICK e, t : e = Event(y, changed) /\ t = Append(events[y.gvr], e)
  OBVIOUS
<1>4. /\ e \in Events
      /\ events[y.gvr] \in Seq(Events)
  BY <1>2, <1>3 DEF Event, Events
<1>5. /\ Len(events[y.gvr]) \in Nat /\ Len(t) = Len(events[y.gvr]) + 1
      /\ t[Len(t)] = e /\ \A i \in 1..Len(events[y.gvr]) : t[i] = events[y.gvr][i]
  BY <1>3, <1>4, AppendProperties, LenProperties
<1>6. events' = IF y.gvr \in running THEN [events EXCEPT ![y.gvr] = t] ELSE events
  BY <1>1, <1>3
<1>7. Heard(x) => Heard(x)'
  <2>1. CASE x.gvr = y.gvr /\ y.gvr \in running
    <3>1. events'[x.gvr] = t /\ events[x.gvr] = events[y.gvr]
      BY <1>2, <1>6, <2>1
    <3>2. \A i \in 1..Len(events[y.gvr]) : i \in 1..Len(t)
      BY <1>5
    <3>3. QED
      BY <1>5, <3>1, <3>2 DEF Heard
  <2>2. CASE ~(x.gvr = y.gvr /\ y.gvr \in running)
    <3>1. events'[x.gvr] = events[x.gvr]
      BY <1>2, <1>6, <2>2
    <3>2. QED
      BY <3>1 DEF Heard
  <2>3. QED
    BY <2>1, <2>2
<1>8. CASE x = y /\ changed
  <2>1. CASE x.gvr \in running
    <3>1. events'[x.gvr] = t /\ Len(t) \in 1..Len(t)
      BY <1>2, <1>5, <1>6, <1>8, <2>1
    <3>2. Heard(x)'
      BY <1>3, <1>5, <1>8, <3>1 DEF Heard
    <3>3. QED
      BY <3>2 DEF Heard, Underway
  <2>2. CASE x.gvr \notin running
    BY <1>2, <2>2 DEF Underway
  <2>3. QED
    BY <2>1, <2>2
<1>9. CASE ~(x = y /\ changed)
  <2>1. res'[x] = res[x]
    <3>1. CASE x # y
      BY <1>1, <1>2, <3>1
    <3>2. CASE x = y
      <4>1. ~changed /\ there = TRUE /\ res[x].there = TRUE
        BY <1>1, <1>2, <1>9, <3>2
      <4>2. res'[x] = [n |-> res[x].n, there |-> TRUE]
        BY <1>1, <1>2, <3>2, <4>1
      <4>3. res[x] \in [n : Nat, there : BOOLEAN] /\ res[x].there = TRUE
        BY <1>2, <4>1
      <4>4. QED
        BY <4>2, <4>3
    <3>3. QED
      BY <3>1, <3>2
  <2>2. Behind(r, x)
    BY <1>2, <2>1, BehindSame
  <2>3. x \notin missed
    BY <1>1, <1>9
  <2>4. Underway(r, x)
    BY <1>2, <2>2, <2>3, WasUnderway
  <2>5. Announced(r) => Announced(r)'
    BY <1>2 DEF Announced
  <2>6. QED
    BY <1>2, <1>7, <2>4, <2>5, StillUnderway
<1>10. QED
  BY <1>8, <1>9

(* The tombstone of another resource stands behind what is heard of x.     *)
LEMMA MissServed ==
    ASSUME LInv, NEW y \in Resources, Miss(y),
           NEW r \in RDs, r \notin disturbed', r \notin shifted',
           NEW x \in Resources, x \notin missed', known'[r] = x, Watched(x),
           Behind(r, x)'
    PROVE  Underway(r, x)'
<1>1. /\ UNCHANGED <<known, feed, rdh, running, reader, pending, synced, disturbed, shifted>>
      /\ res' = [res EXCEPT ![y] = [n |-> @.n + 1, there |-> FALSE]]
      /\ missed' = missed \cup {y}
  BY DEF Miss
<1>2. PICK e, t : /\ e = Tombstone(y) /\ t = Append(events[y.gvr], e)
                  /\ events' = [events EXCEPT ![y.gvr] = t]
  BY DEF Miss
<1>3. /\ events \in [Gvrs -> Seq(Events)] /\ x.gvr \in Gvrs /\ y.gvr \in Gvrs
      /\ res \in [Resources -> [n : Nat, there : BOOLEAN]]
  BY ResourceIs DEF LInv, CInv, TInv, KindsOK
<1>4. /\ Len(events[y.gvr]) \in Nat /\ Len(t) = Len(events[y.gvr]) + 1
      /\ \A i \in 1..Len(events[y.gvr]) : t[i] = events[y.gvr][i]
  <2>1. e \in Events
    BY <1>2 DEF Tombstone, Event, Events
  <2>2. events[y.gvr] \in Seq(Events)
    BY <1>3
  <2>3. QED
    BY <1>2, <2>1, <2>2, AppendProperties, LenProperties
<1>5. x # y /\ x \notin missed
  BY <1>1
<1>6. Behind(r, x)
  <2>1. res'[x] = res[x]
    BY <1>1, <1>3, <1>5
  <2>2. QED
    BY <1>1, <2>1, BehindSame
<1>7. Underway(r, x)
  BY <1>1, <1>5, <1>6, WasUnderway
<1>8. Heard(x) => Heard(x)'
  <2>1. CASE x.gvr = y.gvr
    <3>1. events'[x.gvr] = t /\ events[x.gvr] = events[y.gvr]
      BY <1>2, <1>3, <2>1
    <3>2. \A i \in 1..Len(events[y.gvr]) : i \in 1..Len(t)
      BY <1>4
    <3>3. QED
      BY <1>4, <3>1, <3>2 DEF Heard
  <2>2. CASE x.gvr # y.gvr
    <3>1. events'[x.gvr] = events[x.gvr]
      BY <1>2, <1>3, <2>2
    <3>2. QED
      BY <3>1 DEF Heard
  <2>3. QED
    BY <2>1, <2>2
<1>9. Announced(r) => Announced(r)'
  BY <1>1 DEF Announced
<1>10. QED
  BY <1>1, <1>7, <1>8, <1>9, StillUnderway

LEMMA DiscoverServed ==
    ASSUME LInv, NEW found \in DeletableResources, Discover(found),
           NEW r \in RDs, r \notin disturbed', r \notin shifted',
           NEW x \in Resources, x \notin missed', known'[r] = x, Watched(x),
           Behind(r, x)'
    PROVE  Underway(r, x)'
<1>1. /\ UNCHANGED <<known, feed, rdh, res, reader, pending, synced, shifted, missed>>
      /\ disturbed' = disturbed \cup {q \in RDs :
            \E v \in synced[q] : v[1].gvr \in Fresh(found) /\ ~res[v[1]].there}
  BY DEF Discover
<1>2. x.gvr \in Gvrs /\ TInv
  BY ResourceIs DEF LInv, CInv
<1>3. /\ running \subseteq running' /\ running' \ running \subseteq Fresh(found)
      /\ \A g \in Gvrs : g \notin running' \ running => events'[g] = events[g]
      /\ \A g \in Gvrs : g \in running' \ running =>
            \A y \in Resources : y.gvr = g /\ res[y].there =>
               \E i \in 1..Len(events'[g]) :
                  events'[g][i] = Event(y, TRUE)
  BY <1>2, DiscoverEvents
<1>4. Behind(r, x) /\ known[r] = x
  BY <1>1, BehindSame
<1>5. CASE x.gvr \in running' \ running
  <2>1. CASE res[x].there
    <3>1. Heard(x)'
      BY <1>2, <1>3, <1>5, <2>1 DEF Heard
    <3>2. QED
      BY <3>1 DEF Heard, Underway
  <2>2. CASE ~res[x].there
    <3>1. PICK s, m : s = known[r] /\ m = res
      OBVIOUS
    <3>2. View(r) = Seen(s, m)
      BY <3>1 DEF View, Seen
    <3>3. {v \in Seen(s, m) : v[1] = x} = {}
      <4>1. ~(Selects(s, x) /\ m[x].there)
        BY <2>2, <3>1
      <4>2. QED
        BY <4>1, SeenOf
    <3>4. {v \in synced[r] : v[1] = x} # {}
      BY <1>4, <3>2, <3>3 DEF Behind
    <3>5. PICK v \in synced[r] : v[1] = x
      BY <3>4
    <3>6. r \in disturbed'
      BY <1>1, <1>3, <1>5, <2>2, <3>5
    <3>7. QED
      BY <3>6
  <2>3. QED
    BY <2>1, <2>2
<1>6. CASE x.gvr \notin running' \ running
  <2>1. Underway(r, x)
    BY <1>1, <1>4, WasUnderway
  <2>2. (Heard(x) => Heard(x)') /\ (Announced(r) => Announced(r)')
    BY <1>1, <1>2, <1>3, <1>6 DEF Heard, Announced
  <2>3. x.gvr \in running' => x.gvr \in running
    BY <1>6
  <2>4. QED
    BY <1>1, <2>1, <2>2, <2>3, StillUnderway
<1>7. QED
  BY <1>5, <1>6

(* A reader drops an event only if nobody waits for it, and hands on every *)
(* RD of the list, unless the list is shifted under it.                    *)
LEMMA ReaderServed ==
    ASSUME LInv, NEW g \in Gvrs, Reader(g),
           NEW r \in RDs, r \notin disturbed', r \notin shifted',
           NEW x \in Resources, x \notin missed', known'[r] = x, Watched(x),
           Behind(r, x)'
    PROVE  Underway(r, x)'
<1>1. /\ UNCHANGED <<known, feed, rdh, byKey, keyOf, res, running, synced, disturbed,
                     shifted, missed>>
      /\ pending \subseteq pending'
  BY DEF Reader, Filter, Lookup, Loop, index, history
<1>2. /\ reader \in [Gvrs -> Reads] /\ events \in [Gvrs -> Seq(Events)]
      /\ ReadOK(reader[g]) /\ CInv /\ x.gvr \in Gvrs
  BY ResourceIs DEF LInv, CInv, TInv, KindsOK
<1>3. Behind(r, x) /\ known[r] = x
  BY <1>1, BehindSame
<1>4. Underway(r, x)
  BY <1>1, <1>3, WasUnderway
<1>5. Announced(r) => Announced(r)'
  BY <1>1 DEF Announced
<1>6. CASE x.gvr # g
  <2>1. reader'[x.gvr] = reader[x.gvr] /\ events'[x.gvr] = events[x.gvr]
    BY <1>2, <1>6 DEF Reader, Filter, Lookup, Loop
  <2>2. Heard(x) => Heard(x)'
    BY <2>1 DEF Heard
  <2>3. QED
    BY <1>1, <1>4, <1>5, <2>1, <2>2, StillUnderway
<1>7. CASE x.gvr = g /\ (r \in pending \/ Announced(r) \/ x.gvr \notin running)
  BY <1>1, <1>5, <1>7 DEF Underway
<1>8. CASE /\ x.gvr = g /\ r \notin pending /\ ~Announced(r)
           /\ Heard(x) \/ LookedUp(x) \/ InLoop(r, x)
  <2>1. keyOf[r] = x /\ \E i \in 1..Len(byKey[x].list) : byKey[x].list[i] = r
    BY <1>1, <1>2, <1>3, <1>8, NamedIsFound
  <2>2. CASE Filter(g)
    <3>1. PICK e, s, t : e = Head(events[g]) /\ s = events[g] /\ t = Tail(events[g])
      OBVIOUS
    <3>2. s \in Seq(Events) /\ s # <<>>
      BY <1>2, <2>2, <3>1 DEF Filter
    <3>3. /\ Len(s) \in Nat /\ e = s[1] /\ e \in Events /\ Len(t) = Len(s) - 1
          /\ \A i \in 1..Len(t) : t[i] = s[i + 1]
      BY <3>1, <3>2, HeadTailProperties, LenProperties, EmptySeq
    <3>4. /\ reader[g].pc = "idle" /\ events'[g] = t
          /\ reader' = [reader EXCEPT ![g] =
                IF EventFilter(e) /\ e.changed
                THEN [NoRead EXCEPT !.pc = "lookup", !.res = e.res] ELSE NoRead]
      BY <1>2, <2>2, <3>1 DEF Filter
    <3>5. PICK i \in 1..Len(s) : s[i] = Event(x, TRUE)
      BY <1>8, <3>1, <3>4 DEF Heard, LookedUp, InLoop
    <3>6. CASE i = 1
      <4>1. e.res = x /\ e.changed /\ ~Fails(e)
        BY <3>3, <3>5, <3>6 DEF Event, Fails
      <4>2. EventFilter(e)
        <5>1. ClusterWideKey(x) = x /\ HasPrefix(x, x) /\ x # None
          BY SameKey, OwnPrefix, ResourceIs
        <5>2. QED
          BY <2>1, <4>1, <5>1 DEF EventFilter, Watched
      <4>3. reader'[g].pc = "lookup" /\ reader'[g].res = x
        BY <1>2, <3>4, <4>1, <4>2 DEF NoRead
      <4>4. QED
        BY <1>8, <4>3 DEF Underway
    <3>7. CASE i # 1
      <4>1. i - 1 \in 1..Len(t) /\ t[i - 1] = s[i]
        BY <3>3, <3>7
      <4>2. Heard(x)'
        BY <1>8, <3>4, <3>5, <4>1 DEF Heard
      <4>3. QED
        BY <4>2 DEF Heard, Underway
    <3>8. QED
      BY <3>6, <3>7
  <2>3. CASE Lookup(g)
    <3>1. /\ reader[g].pc = "lookup" /\ events' = events
          /\ reader' = [reader EXCEPT ![g] =
                [@ EXCEPT !.pc = "loop", !.i = 1, !.attached = TRUE,
                          !.arr = byKey[ClusterWideKey(reader[g].res)].list]]
      BY <2>3 DEF Lookup
    <3>2. CASE Heard(x)
      BY <3>1, <3>2 DEF Heard, Underway
    <3>3. CASE LookedUp(x)
      <4>1. PICK l : l = byKey[x].list
        OBVIOUS
      <4>2. reader[g].res = x /\ ClusterWideKey(x) = x
        BY <1>8, <3>3, SameKey DEF LookedUp
      <4>3. reader' = [reader EXCEPT ![g] =
                [@ EXCEPT !.pc = "loop", !.i = 1, !.attached = TRUE, !.arr = l]]
        BY <3>1, <4>1, <4>2
      <4>4. /\ reader'[g].pc = "loop" /\ reader'[g].res = x /\ reader'[g].i = 1
            /\ reader'[g].arr = l
        BY <1>2, <4>2, <4>3 DEF Reads
      <4>5. InLoop(r, x)'
        BY <1>8, <2>1, <4>1, <4>4 DEF InLoop
      <4>6. QED
        BY <4>5 DEF InLoop, Underway
    <3>4. QED
      BY <1>8, <3>1, <3>2, <3>3 DEF InLoop
  <2>4. CASE Loop(g)
    <3>1. PICK a : a = reader[g]
      OBVIOUS
    <3>2. /\ a.pc = "loop" /\ events' = events
          /\ IF a.i > Len(a.arr)
             THEN reader' = [reader EXCEPT ![g] = NoRead]
             ELSE /\ pending' = pending \cup {a.arr[a.i]}
                  /\ reader' = [reader EXCEPT ![g].i = @ + 1]
      BY <2>4, <3>1 DEF Loop
    <3>3. CASE Heard(x)
      BY <3>2, <3>3 DEF Heard, Underway
    <3>4. CASE InLoop(r, x)
      <4>1. PICK j \in a.i..Len(a.arr) : a.arr[j] = r
        BY <1>8, <3>1, <3>4 DEF InLoop
      <4>2. /\ a \in Reads /\ a.i \in Nat /\ Len(a.arr) \in Nat /\ a.res = x
            /\ ~(a.i > Len(a.arr)) /\ j \in Nat
        <5>1. a \in Reads /\ a.i \in Nat /\ a.arr \in Seq(RDs) /\ a.res = x
          BY <1>2, <1>8, <3>1, <3>4 DEF Reads, InLoop
        <5>2. Len(a.arr) \in Nat
          BY <5>1, LenProperties
        <5>3. QED
          BY <4>1, <5>1, <5>2
      <4>3. /\ pending' = pending \cup {a.arr[a.i]}
            /\ reader' = [reader EXCEPT ![g].i = @ + 1]
        BY <3>2, <4>2
      <4>4. CASE j = a.i
        BY <4>1, <4>3, <4>4 DEF Underway
      <4>5. CASE j # a.i
        <5>1. /\ reader'[g].pc = "loop" /\ reader'[g].res = x
              /\ reader'[g].i = a.i + 1 /\ reader'[g].arr = a.arr
          BY <1>2, <3>1, <3>2, <4>2, <4>3 DEF Reads
        <5>2. j \in (a.i + 1)..Len(a.arr)
          BY <4>1, <4>2, <4>5
        <5>3. InLoop(r, x)'
          BY <1>8, <4>1, <5>1, <5>2 DEF InLoop
        <5>4. QED
          BY <5>3 DEF InLoop, Underway
      <4>6. QED
        BY <4>4, <4>5
    <3>5. QED
      BY <1>8, <3>1, <3>2, <3>3, <3>4 DEF LookedUp
  <2>5. QED
    BY <2>2, <2>3, <2>4 DEF Reader
<1>9. QED
  BY <1>4, <1>6, <1>7, <1>8, UnderwayIs

(* The handlers forget an RD only when the index is right about it. *)
LEMMA HandlerServed ==
    ASSUME LInv, RDHandler,
           NEW r \in RDs, r \notin disturbed', r \notin shifted',
           NEW x \in Resources, x \notin missed', known'[r] = x, Watched(x),
           Behind(r, x)'
    PROVE  Underway(r, x)'
<1>1. /\ UNCHANGED <<known, res, events, running, synced, disturbed, missed>>
      /\ pending \subseteq pending' /\ shifted \subseteq shifted'
  BY DEF RDHandler, HandleRD, AddKey, AddRD, CutKey, CutRD, Enqueue, dynamic, history
<1>2. /\ CInv /\ x.gvr \in Gvrs /\ reader \in [Gvrs -> Reads]
      /\ rdh = [pc |-> rdh.pc, rd |-> rdh.rd, key |-> rdh.key]
  BY ResourceIs DEF LInv, CInv, TInv, Inv, RdhOK, KindsOK
<1>3. Behind(r, x) /\ known[r] = x
  BY <1>1, BehindSame
<1>4. Underway(r, x)
  BY <1>1, <1>3, WasUnderway
<1>5. Heard(x) => Heard(x)'
  BY <1>1 DEF Heard
<1>6. CASE HandleRD
  <2>1. /\ rdh.pc = "idle" /\ feed # <<>> /\ feed' = Tail(feed)
        /\ rdh' = IF Entry(Head(feed)) = "idle" THEN Idle
                  ELSE [pc |-> Entry(Head(feed)), rd |-> Head(feed).rd,
                        key |-> Head(feed).sel]
        /\ reader' = reader
    BY <1>6 DEF HandleRD, dynamic
  <2>2. Announced(r) => Announced(r)'
    <3>1. SUFFICES ASSUME Announced(r) PROVE Announced(r)'
      OBVIOUS
    <3>2. rdh.rd # r
      BY <2>1, RoutingConstants DEF LInv
    <3>3. PICK i \in 1..Len(feed) : feed[i].rd = r
      BY <3>1, <3>2 DEF Announced
    <3>4. PICK f, t, e : f = feed /\ t = Tail(feed) /\ e = Head(feed)
      OBVIOUS
    <3>5. f \in Seq(Entries) /\ f # <<>>
      BY <1>2, <2>1, <3>4 DEF CInv, TInv, Inv
    <3>6. /\ Len(f) \in Nat /\ e = f[1] /\ e \in Entries /\ Len(t) = Len(f) - 1
          /\ \A j \in 1..Len(t) : t[j] = f[j + 1]
      BY <3>4, <3>5, HeadTailProperties, LenProperties, EmptySeq
    <3>7. feed' = t
      BY <2>1, <3>4
    <3>8. CASE i # 1
      <4>1. i - 1 \in 1..Len(t) /\ t[i - 1] = f[i]
        BY <3>3, <3>4, <3>6, <3>8
      <4>2. QED
        BY <3>3, <3>4, <3>7, <4>1 DEF Announced
    <3>9. CASE i = 1 /\ Entry(e) # "idle"
      BY <2>1, <3>3, <3>4, <3>6, <3>9 DEF Announced
    <3>10. CASE i = 1 /\ Entry(e) = "idle" /\ Of(t, r) # {}
      BY <3>7, <3>10 DEF Announced, Of
    <3>11. CASE i = 1 /\ Entry(e) = "idle" /\ Of(t, r) = {}
      <4>1. Of(f, r) = {1}
        <5>1. ASSUME NEW j \in Of(f, r), j # 1 PROVE FALSE
          <6>1. j - 1 \in 1..Len(t) /\ t[j - 1].rd = r
            BY <3>6, <5>1 DEF Of
          <6>2. QED
            BY <3>11, <6>1 DEF Of
        <5>2. 1 \in Of(f, r)
          BY <3>3, <3>4, <3>11 DEF Of
        <5>3. QED
          BY <5>1, <5>2
      <4>2. Chain(r)
        BY <1>1, <1>2 DEF CInv
      <4>3. f[1].op \in {"add", "delete"} /\ Leaves(f[1]) = CacheKey(r)
        BY <3>4, <4>1, <4>2 DEF Chain, ChainOf
      <4>4. Leaves(f[1]) = None
        BY <3>6, <3>11, <4>3 DEF Entry, Leaves, KeyIf
      <4>5. CacheKey(r) = x /\ x # None
        BY <1>3, ResourceIs DEF CacheKey, KeyIf, Valid
      <4>6. QED
        BY <4>3, <4>4, <4>5
    <3>12. QED
      BY <3>8, <3>9, <3>10, <3>11
  <2>3. QED
    BY <1>1, <1>4, <1>5, <2>1, <2>2, StillUnderway
<1>7. CASE AddRD \/ CutRD \/ Enqueue
  <2>1. /\ reader' = reader /\ feed' = feed
        /\ rdh'.rd = rdh.rd \/ pending' = pending \cup {rdh.rd}
    BY <1>2, <1>7 DEF AddRD, CutRD, Enqueue, dynamic
  <2>2. Announced(r) => Announced(r)' \/ r \in pending'
    BY <2>1 DEF Announced
  <2>3. QED
    BY <1>1, <1>4, <1>5, <2>1, <2>2, StillUnderway
<1>8. CASE AddKey \/ CutKey
  <2>1. feed' = feed /\ rdh'.rd = rdh.rd
    BY <1>2, <1>8 DEF AddKey, CutKey
  <2>2. Announced(r) => Announced(r)'
    BY <2>1 DEF Announced
  <2>3. /\ reader'[x.gvr].pc = reader[x.gvr].pc
        /\ reader'[x.gvr].res = reader[x.gvr].res
        /\ reader'[x.gvr].i = reader[x.gvr].i
        /\ \/ reader'[x.gvr].arr = reader[x.gvr].arr
           \/ ToSet(reader[x.gvr].arr) \subseteq shifted'
    <3>1. PICK g, a : g = x.gvr /\ a = reader[g]
      OBVIOUS
    <3>2. g \in Gvrs /\ a \in Reads
      BY <1>2, <3>1
    <3>3. CASE AddKey
      <4>1. reader'[g] = a \/ reader'[g] = [a EXCEPT !.attached = FALSE]
        BY <3>1, <3>2, <3>3 DEF AddKey
      <4>2. QED
        BY <3>1, <3>2, <4>1 DEF Reads
    <3>4. CASE CutKey
      <4>1. \/ reader'[g] = a
            \/ /\ \E b : reader'[g] = [a EXCEPT !.arr = b]
               /\ ToSet(a.arr) \subseteq shifted'
        BY <3>1, <3>2, <3>4 DEF CutKey
      <4>2. QED
        BY <3>1, <3>2, <4>1 DEF Reads
    <3>5. QED
      BY <1>8, <3>3, <3>4
  <2>4. LookedUp(x) => LookedUp(x)'
    BY <2>3 DEF LookedUp
  <2>5. InLoop(r, x) => InLoop(r, x)'
    <3>1. CASE reader'[x.gvr].arr = reader[x.gvr].arr
      BY <2>3, <3>1 DEF InLoop
    <3>2. CASE ToSet(reader[x.gvr].arr) \subseteq shifted'
      <4>1. PICK a : a = reader[x.gvr]
        OBVIOUS
      <4>2. a \in Reads /\ (a.pc = "loop" => a.i \in 1..Len(a.arr) + 1)
        BY <1>2, <4>1 DEF LInv, CInv, TInv, KindsOK, ReadOK
      <4>3. a.arr \in Seq(RDs) /\ Len(a.arr) \in Nat /\ DOMAIN a.arr = 1..Len(a.arr)
        BY <4>2, LenProperties DEF Reads
      <4>4. ASSUME InLoop(r, x) PROVE FALSE
        <5>1. PICK i \in a.i..Len(a.arr) : a.arr[i] = r
          BY <4>1, <4>4 DEF InLoop
        <5>2. i \in DOMAIN a.arr
          BY <4>1, <4>2, <4>3, <4>4, <5>1 DEF InLoop
        <5>3. r \in ToSet(a.arr)
          BY <5>1, <5>2 DEF ToSet
        <5>4. QED
          BY <3>2, <4>1, <5>3
      <4>5. QED
        BY <4>4
    <3>3. QED
      BY <2>3, <3>1, <3>2
  <2>6. Underway(r, x)' <=> \/ r \in pending' \/ Announced(r)'
                            \/ x.gvr \notin running'
                            \/ Heard(x)' \/ LookedUp(x)' \/ InLoop(r, x)'
    BY DEF Underway, Heard, LookedUp, InLoop
  <2>7. QED
    BY <1>1, <1>4, <1>5, <2>2, <2>4, <2>5, <2>6, UnderwayIs
<1>9. QED
  BY <1>6, <1>7, <1>8 DEF RDHandler

LEMMA NextServed == ASSUME LInv, [Next]_vars PROVE LInv'
<1>1. CInv'
  BY NextChain DEF LInv
<1>2. (rdh.pc = "idle" => rdh.rd = None)'
  <2>1. CASE RDHandler
    <3>1. CASE HandleRD
      <4>1. PICK e, p : e = Head(feed) /\ p = Entry(e)
        OBVIOUS
      <4>2. rdh' = IF p = "idle" THEN Idle ELSE [pc |-> p, rd |-> e.rd, key |-> e.sel]
        BY <3>1, <4>1 DEF HandleRD
      <4>3. QED
        BY <4>2 DEF Idle
    <3>2. CASE AddKey \/ AddRD \/ CutKey \/ CutRD
      <4>1. rdh = [pc |-> rdh.pc, rd |-> rdh.rd, key |-> rdh.key]
        BY DEF LInv, CInv, TInv, Inv, RdhOK
      <4>2. rdh'.pc \in {"add rd", "cut rd", "enqueue"}
        BY <3>2, <4>1 DEF AddKey, AddRD, CutKey, CutRD
      <4>3. QED
        BY <4>2
    <3>3. CASE Enqueue
      BY <3>3 DEF Enqueue, Idle
    <3>4. QED
      BY <2>1, <3>1, <3>2, <3>3 DEF RDHandler
  <2>2. CASE Restart
    BY <2>2 DEF Restart, Idle
  <2>3. CASE UNCHANGED rdh
    BY <2>3 DEF LInv
  <2>4. QED
    BY <2>1, <2>2, <2>3 DEF Next, Create, Edit, Delete, Resync, Sync, Write, Miss, Discover,
                            Reader, Filter, Lookup, Loop, vars
<1>3. ASSUME NEW r \in RDs, r \notin disturbed', r \notin shifted',
             NEW x \in Resources, x \notin missed', known'[r] = x, Watched(x),
             Behind(r, x)'
      PROVE  Underway(r, x)'
  <2>1. CASE \E q \in RDs : Create(q) \/ Edit(q) \/ Delete(q) \/ Resync(q)
    BY <1>3, <2>1, UserServed
  <2>2. CASE \E q \in RDs : Sync(q)
    BY <1>3, <2>2, SyncServed
  <2>3. CASE \E y \in Resources : Write(y) \/ Miss(y)
    BY <1>3, <2>3, WriteServed, MissServed
  <2>4. CASE RDHandler
    BY <1>3, <2>4, HandlerServed
  <2>5. CASE \E found \in DeletableResources : Discover(found)
    BY <1>3, <2>5, DiscoverServed
  <2>6. CASE \E g \in Gvrs : Reader(g)
    BY <1>3, <2>6, ReaderServed
  <2>7. CASE Restart
    BY <2>7 DEF Restart, Underway
  <2>8. CASE UNCHANGED vars
    <3>1. /\ UNCHANGED <<known, feed, rdh, res, events, running, reader, pending, synced,
                         history>>
      BY <2>8 DEF vars, dynamic, history
    <3>2. Behind(r, x)
      BY <1>3, <3>1, BehindSame
    <3>3. Underway(r, x)
      BY <1>3, <3>1, <3>2, WasUnderway DEF history
    <3>4. (Heard(x) => Heard(x)') /\ (Announced(r) => Announced(r)')
      BY <3>1 DEF Heard, Announced
    <3>5. QED
      BY <3>1, <3>3, <3>4, StillUnderway
  <2>9. QED
    BY <2>1, <2>2, <2>3, <2>4, <2>5, <2>6, <2>7, <2>8 DEF Next
<1>4. NoLostChange'
  <2>1. \A x : Watched(x)' <=> Watched(x)
    BY DEF Watched
  <2>2. QED
    BY <1>3, <2>1 DEF NoLostChange
<1>5. QED
  BY <1>1, <1>2, <1>4 DEF LInv

(* A change of a resource that an RD names, and that its last sync did not *)
(* see, is always on its way to another sync of it: in the queue, with a   *)
(* handler of RDs, in the events of the resource's informer, or with the   *)
(* goroutine that looks it up and loops over a list.  For every order of   *)
(* creations, deletions, discovery, handlers, changes, syncs and crashes;  *)
(* the RDs in two history variables are exceptions, and the resources of   *)
(* which only a tombstone was announced, until they are there again.       *)
THEOREM ChangesAreServed == Spec => []NoLostChange
<1>1. Init => LInv
  <2>1. SUFFICES ASSUME Init PROVE LInv
    OBVIOUS
  <2>2. CInv
    BY <2>1, InitChain
  <2>3. rdh.rd = None /\ running = {}
    BY <2>1 DEF Init, Idle
  <2>4. QED
    BY <2>2, <2>3 DEF LInv, NoLostChange, Underway
<1>2. LInv /\ [Next]_vars => LInv'
  BY NextServed
<1>3. LInv => NoLostChange
  BY DEF LInv
<1>4. QED
  BY <1>1, <1>2, <1>3, PTL DEF Spec
=============================================================================
