---------------------------- MODULE EventRouting ----------------------------
(***************************************************************************)
(* How DistributionController learns that something an RD selects has      *)
(* changed (resource_controller.go 713-1080, genericmanager/               *)
(* single-cluster-manager.go): two maps between RDs and the keys of their  *)
(* selectors, written without a lock by the goroutine that handles RDs,    *)
(* and read by one goroutine for each API resource that discoverResources  *)
(* has found.                                                              *)
(*                                                                         *)
(* A selector is the key it is turned into, [gvr, ns, name]; a name is a   *)
(* sequence of letters, empty if there is none.  A sync (see               *)
(* DistributionController) is one step here: it reads what is selected.    *)
(***************************************************************************)
EXTENDS Integers, Sequences, SequencesExt, SkippedResources

CONSTANTS
    RDs,        \* names of ResourceDistributions
    Early,      \* those that exist when the process starts
    Gvrs,       \* API resources: what discovery can find
    Selectors,  \* what users select
    Resources,  \* what there may be in the host cluster: keys with a name
    Excluded,   \* those in a namespace kube-..., service account tokens
    None,       \* no RD, no key, no API resource in a selector
    MaxOps,     \* bound: writes of users
    MaxFaults   \* bound: missed deletions, crashes

ASSUME RoutingConstants ==
    /\ IsFiniteSet(RDs) /\ Early \subseteq RDs /\ IsFiniteSet(Resources)
    /\ None \notin RDs \cup Selectors \cup Resources \cup Gvrs
    /\ MaxOps \in Nat /\ MaxFaults \in Nat

ASSUME ResourceKeys == Resources \subseteq [gvr : Gvrs, ns : STRING, name : Seq(STRING)]

VARIABLES
    known,      \* selectors of the RDs in the informer's cache, or None
    feed,       \* announcements that wait for the handlers of RDs
    rdh,        \* what the goroutine of these handlers is doing
    byKey,      \* widekeyNamespace: list and capacity of its array
    keyOf,      \* namespaceWidekey
    res,        \* resources: whether there, how often changed
    events,     \* announcements that wait for the handler, by API resource
    handlers,   \* API resources whose informer has the handler
    running,    \* those whose informer was started
    reader,     \* what the goroutines of these handlers are doing
    pending,    \* the work queue
    synced,     \* what the last sync of each RD found
    disturbed,  \* history: RDs whose selector was edited, whose deletion was
                \* missed, or whose resource went before it was watched
    shifted,    \* history: RDs in a list that was shifted under its reader
    missed,     \* history: resources whose deletion their watch missed
    budget

index == <<byKey, keyOf>>
history == <<disturbed, shifted, missed>>
dynamic == <<events, handlers, running, reader>>
vars == <<known, feed, rdh, index, res, dynamic, pending, synced, history, budget>>

Keys == {s \in Selectors : s.gvr # None} \cup Resources

(* findReferenceResource fails without an APIVersion or a Kind. *)
Valid(s) == s.gvr # None

(* group/version/kind, which is the API resource here, /namespace/name:    *)
(* all slashes are there, also without a namespace.                        *)
WideKeyToString(k) == <<k.gvr, "/", k.ns, "/">> \o k.name

(* strings.HasPrefix(wideKeyToString, value) *)
HasPrefix(x, k) == IsPrefix(WideKeyToString(k), WideKeyToString(x))

(* What a sync of an RD reads, see WorkPlan's Fetched. *)
Selects(s, x) ==
    /\ s # None /\ s.gvr = x.gvr
    /\ IF s.name # <<>> THEN s.ns = x.ns /\ s.name = x.name
       ELSE s.ns \in {"", x.ns}

View(r) ==
    {<<x, res[x].n>> : x \in {y \in Resources : Selects(known[r], y) /\ res[y].there}}

Idle == [pc |-> "idle", rd |-> None, key |-> None]
NoRead == [pc |-> "idle", res |-> None, arr |-> <<>>, i |-> 0, attached |-> FALSE]
NoList == [list |-> <<>>, cap |-> 0]

Announce(op, r, s) == feed' = Append(feed, [op |-> op, rd |-> r, sel |-> s])

(* At the start the informer announces every RD there is. *)
Added(rs) == [i \in 1..Len(rs) |-> [op |-> "add", rd |-> rs[i], sel |-> known[rs[i]]]]

Init ==
    /\ known \in [RDs -> Selectors \cup {None}]
    /\ \A r \in RDs : known[r] # None <=> r \in Early
    /\ feed = Added(SetToSeq({r \in RDs : known[r] # None}))
    /\ rdh = Idle
    /\ byKey = [k \in Keys |-> NoList]
    /\ keyOf = [r \in RDs |-> None]
    /\ res \in [Resources -> [n : {0}, there : BOOLEAN]]
    /\ events = [g \in Gvrs |-> <<>>]
    /\ handlers = {} /\ running = {}
    /\ reader = [g \in Gvrs |-> NoRead]
    /\ pending = {}
    /\ synced = [r \in RDs |-> {}]
    /\ disturbed = {} /\ shifted = {} /\ missed = {}
    /\ budget = [ops |-> 0, faults |-> 0]

CanOp ==
    /\ budget.ops < MaxOps
    /\ budget' = [budget EXCEPT !.ops = @ + 1]

CanFault ==
    /\ budget.faults < MaxFaults
    /\ budget' = [budget EXCEPT !.faults = @ + 1]

-----------------------------------------------------------------------------
(* RDs and the goroutine of their handlers *)

Create(r) ==
    /\ CanOp
    /\ known[r] = None
    /\ \E s \in Selectors :
          known' = [known EXCEPT ![r] = s] /\ Announce("add", r, s)
    /\ UNCHANGED <<rdh, index, res, dynamic, pending, synced, history>>

Edit(r) ==
    /\ CanOp
    /\ known[r] # None
    /\ \E s \in Selectors \ {known[r]} :
          known' = [known EXCEPT ![r] = s] /\ Announce("update", r, s)
    /\ disturbed' = disturbed \cup {r}
    /\ UNCHANGED <<rdh, index, res, dynamic, pending, synced, shifted,
                   missed>>

(* The handlers get the RD as it was last, or, if the watch missed the     *)
(* deletion, a DeletedFinalStateUnknown.                                   *)
Delete(r) ==
    /\ known[r] # None
    /\ known' = [known EXCEPT ![r] = None]
    /\ \/ /\ CanOp
          /\ Announce("delete", r, known[r])
          /\ UNCHANGED disturbed
       \/ /\ CanFault
          /\ Announce("lost", r, None)
          /\ disturbed' = disturbed \cup {r}
    /\ UNCHANGED <<rdh, index, res, dynamic, pending, synced, shifted,
                   missed>>

(* Every 30 seconds the UpdateFunc gets every RD again. *)
Resync(r) ==
    /\ known[r] # None
    /\ pending' = pending \cup {r}
    /\ UNCHANGED <<known, feed, rdh, index, res, dynamic, synced, history, budget>>

(* Where a handler of e goes: OnRDAdd and OnRDDelete return at once if the *)
(* selector has no key or e is no RD; the UpdateFunc only enqueues.        *)
Entry(e) ==
    CASE e.op = "update" -> "enqueue"
      [] e.op = "add" /\ Valid(e.sel) -> "add key"
      [] e.op = "delete" /\ Valid(e.sel) -> "cut key"
      [] OTHER -> "idle"

HandleRD ==
    /\ rdh.pc = "idle" /\ feed # <<>>
    /\ LET e == Head(feed)
       IN  rdh' = IF Entry(e) = "idle" THEN Idle
                  ELSE [pc |-> Entry(e), rd |-> e.rd, key |-> e.sel]
    /\ feed' = Tail(feed)
    /\ UNCHANGED <<known, index, res, dynamic, pending, synced, history, budget>>

(* The goroutines that range over the list of key k, in its array. *)
Ranging(k) == {g \in Gvrs : reader[g].pc = "loop" /\ reader[g].res = k /\ reader[g].attached}

(* Mutant of Grown: the list starts anew. *)
GrownAnew(l, r) == [list |-> <<r>>, cap |-> l.cap]

(* append to a slice of strings: a full array is replaced by one twice its *)
(* size.                                                                   *)
Grown(l, r) ==
    [list |-> Append(l.list, r),
     cap |-> IF Len(l.list) < l.cap THEN l.cap ELSE IF l.cap = 0 THEN 1 ELSE 2 * l.cap]

AddKey ==
    LET k == rdh.key
        l == Grown(byKey[k], rdh.rd)
    IN  /\ rdh.pc = "add key"
        /\ byKey' = [byKey EXCEPT ![k] = l]
        /\ reader' = [g \in Gvrs |->
              IF g \in Ranging(k) /\ l.cap # byKey[k].cap
              THEN [reader[g] EXCEPT !.attached = FALSE] ELSE reader[g]]
        /\ rdh' = [rdh EXCEPT !.pc = "add rd"]
        /\ UNCHANGED <<known, feed, keyOf, res, events, handlers, running,
                       pending, synced, history, budget>>

(* Mutant of AddRD: OnRDAdd does not enqueue the RD. *)
AddRDQuietly ==
    /\ rdh.pc = "add rd"
    /\ keyOf' = [keyOf EXCEPT ![rdh.rd] = rdh.key]
    /\ rdh' = Idle
    /\ UNCHANGED <<known, feed, byKey, res, dynamic, pending, synced, history, budget>>

AddRD ==
    /\ rdh.pc = "add rd"
    /\ keyOf' = [keyOf EXCEPT ![rdh.rd] = rdh.key]
    /\ rdh' = [rdh EXCEPT !.pc = "enqueue"]
    /\ UNCHANGED <<known, feed, byKey, res, dynamic, pending, synced, history, budget>>

(* append(s[:i], s[i+1:]...) for the first r in s: what is behind r moves  *)
(* forward in the array, whose last place keeps what it has.               *)
First(s, r) == CHOOSE i \in 1..Len(s) : s[i] = r /\ \A j \in 1..i - 1 : s[j] # r
Shifted(s, i) == [j \in 1..Len(s) |-> IF j < i \/ j = Len(s) THEN s[j] ELSE s[j + 1]]

(* Mutant of Cut: the last RD of the list goes. *)
CutLast(l, r) ==
    IF Len(l.list) < 2 THEN NoList
    ELSE [l EXCEPT !.list = SubSeq(l.list, 1, Len(l.list) - 1)]

Cut(l, r) ==
    LET s == Shifted(l.list, First(l.list, r))
    IN  IF \A i \in 1..Len(l.list) : l.list[i] # r THEN l
        ELSE IF Len(s) = 1 THEN NoList
        ELSE [l EXCEPT !.list = SubSeq(s, 1, Len(s) - 1)]

CutKey ==
    LET k == rdh.key
        r == rdh.rd
        s == byKey[k].list
        hit == IF \E i \in 1..Len(s) : s[i] = r THEN Ranging(k) ELSE {}
        Moved(a) == IF First(s, r) < Len(a) THEN Shifted(a, First(s, r)) ELSE a
    IN  /\ rdh.pc = "cut key"
        /\ byKey' = [byKey EXCEPT ![k] = Cut(@, r)]
        /\ reader' = [g \in Gvrs |->
              IF g \in hit THEN [reader[g] EXCEPT !.arr = Moved(@)] ELSE reader[g]]
        /\ shifted' = shifted \cup UNION {ToSet(reader[g].arr) : g \in hit}
        /\ rdh' = [rdh EXCEPT !.pc = "cut rd"]
        /\ UNCHANGED <<known, feed, keyOf, res, events, handlers, running,
                       pending, synced, disturbed, missed, budget>>

CutRD ==
    /\ rdh.pc = "cut rd"
    /\ keyOf' = [keyOf EXCEPT ![rdh.rd] = None]
    /\ rdh' = [rdh EXCEPT !.pc = "enqueue"]
    /\ UNCHANGED <<known, feed, byKey, res, dynamic, pending, synced, history, budget>>

Enqueue ==
    /\ rdh.pc = "enqueue"
    /\ pending' = pending \cup {rdh.rd}
    /\ rdh' = Idle
    /\ UNCHANGED <<known, feed, index, res, dynamic, synced, history, budget>>

-----------------------------------------------------------------------------
(* discoverResources and the InformerManager *)

Event(x, changed) == [res |-> x, changed |-> changed, tombstone |-> FALSE]

(* DeletedFinalStateUnknown, instead of the object *)
Tombstone(x) == [Event(x, TRUE) EXCEPT !.tombstone = TRUE]

IsHandlerExist(g) == g \in handlers

(* GetDeletableResources: what discovery finds may be a part only. *)
DeletableResources == SUBSET Gvrs

Fresh(found) == {g \in found : ~IsHandlerExist(g) /\ ~Disabled(g)}

AppendHandler(new) == handlers \cup new

(* ForResource, for each of them, under the lock of the manager. *)
ForResource(new) == handlers' = AppendHandler(new)

(* Mutant of Start: the informers are not started. *)
StartNone == UNCHANGED <<running, events>>

(* Every informer that has not been started is, and announces what it      *)
(* lists.                                                                  *)
Start ==
    LET Listed(g) == SetToSeq({x \in Resources : x.gvr = g /\ res[x].there})
    IN  /\ running' = handlers'
        /\ events' = [g \in Gvrs |->
              IF g \in running' \ running
              THEN [i \in 1..Len(Listed(g)) |-> Event(Listed(g)[i], TRUE)]
              ELSE events[g]]

(* discoverResources, every 30 seconds. *)
Discover(found) ==
    /\ Fresh(found) # {}
    /\ ForResource(Fresh(found))
    /\ Start
    /\ disturbed' = disturbed \cup {r \in RDs :
          \E v \in synced[r] : v[1].gvr \in Fresh(found) /\ ~res[v[1]].there}
    /\ UNCHANGED <<known, feed, rdh, index, res, reader, pending, synced, shifted,
                   missed, budget>>

(* A resource is created, deleted, or updated; changed tells whether       *)
(* SpecificationChanged will say so.                                       *)
Write(x) ==
    /\ CanOp
    /\ \E changed \in BOOLEAN, there \in BOOLEAN :
          /\ ~changed => there /\ res[x].there
          /\ there \/ res[x].there
          /\ res' = [res EXCEPT ![x] = [n |-> IF changed THEN @.n + 1 ELSE @.n,
                                        there |-> there]]
          /\ events' = IF x.gvr \in running
                       THEN [events EXCEPT ![x.gvr] = Append(@, Event(x, changed))]
                       ELSE events
          /\ missed' = IF changed THEN missed \ {x} ELSE missed
    /\ UNCHANGED <<known, feed, rdh, index, handlers, running, reader, pending,
                   synced, disturbed, shifted>>

(* The watch misses a deletion; the list that follows lacks the resource.  *)
Miss(x) ==
    /\ CanFault
    /\ res[x].there /\ x.gvr \in running
    /\ res' = [res EXCEPT ![x] = [n |-> @.n + 1, there |-> FALSE]]
    /\ events' = [events EXCEPT ![x.gvr] = Append(@, Tombstone(x))]
    /\ missed' = missed \cup {x}
    /\ UNCHANGED <<known, feed, rdh, index, handlers, running, reader, pending,
                   synced, disturbed, shifted>>

-----------------------------------------------------------------------------
(* The goroutine of the handler of API resource g *)

(* ClusterWideKeyFunc; OnAdd puts the same key together by itself. *)
ClusterWideKey(x) == [gvr |-> x.gvr, ns |-> x.ns, name |-> x.name]

(* A tombstone is no runtime.Object. *)
Fails(e) == e.tombstone

(* EventFilter: FALSE if ClusterWideKeyFunc fails. *)
EventFilter(e) ==
    /\ ~Fails(e)
    /\ e.res \notin Excluded
    /\ \E r \in RDs : keyOf[r] # None /\ HasPrefix(ClusterWideKey(e.res), keyOf[r])

(* The event is filtered; OnUpdate drops it if the spec is the same. *)
Filter(g) ==
    /\ reader[g].pc = "idle" /\ events[g] # <<>>
    /\ LET e == Head(events[g])
       IN  reader' = [reader EXCEPT ![g] =
               IF EventFilter(e) /\ e.changed
               THEN [NoRead EXCEPT !.pc = "lookup", !.res = e.res] ELSE NoRead]
    /\ events' = [events EXCEPT ![g] = Tail(@)]
    /\ UNCHANGED <<known, feed, rdh, index, res, handlers, running, pending,
                   synced, history, budget>>

(* OnAdd looks the key up and ranges over the list as it then is; reader's *)
(* arr is the part of the array that it ranges over.                       *)
Lookup(g) ==
    /\ reader[g].pc = "lookup"
    /\ reader' = [reader EXCEPT ![g] =
          [@ EXCEPT !.pc = "loop", !.i = 1, !.attached = TRUE,
                    !.arr = byKey[ClusterWideKey(reader[g].res)].list]]
    /\ UNCHANGED <<known, feed, rdh, index, res, events, handlers, running,
                   pending, synced, history, budget>>

Loop(g) ==
    LET a == reader[g]
    IN  /\ a.pc = "loop"
        /\ IF a.i > Len(a.arr)
           THEN /\ reader' = [reader EXCEPT ![g] = NoRead]
                /\ UNCHANGED pending
           ELSE /\ pending' = pending \cup {a.arr[a.i]}
                /\ reader' = [reader EXCEPT ![g].i = @ + 1]
        /\ UNCHANGED <<known, feed, rdh, index, res, events, handlers, running,
                       synced, history, budget>>

-----------------------------------------------------------------------------
(* Workers, crashes *)

Sync(r) ==
    /\ r \in pending
    /\ pending' = pending \ {r}
    /\ synced' = [synced EXCEPT ![r] = View(r)]
    /\ UNCHANGED <<known, feed, rdh, index, res, dynamic, history, budget>>

(* The process is killed, or the Go runtime ends it because one goroutine  *)
(* read a map while the other wrote it; it starts again.                   *)
Restart ==
    /\ CanFault
    /\ feed' = Added(SetToSeq({r \in RDs : known[r] # None}))
    /\ rdh' = Idle
    /\ byKey' = [k \in Keys |-> NoList]
    /\ keyOf' = [r \in RDs |-> None]
    /\ events' = [g \in Gvrs |-> <<>>]
    /\ handlers' = {} /\ running' = {}
    /\ reader' = [g \in Gvrs |-> NoRead]
    /\ pending' = {}
    /\ disturbed' = {} /\ shifted' = {} /\ missed' = {}
    /\ UNCHANGED <<known, res, synced>>

-----------------------------------------------------------------------------
RDHandler == HandleRD \/ AddKey \/ AddRD \/ CutKey \/ CutRD \/ Enqueue

Reader(g) == Filter(g) \/ Lookup(g) \/ Loop(g)

Next ==
    \/ \E r \in RDs : Create(r) \/ Edit(r) \/ Delete(r) \/ Resync(r) \/ Sync(r)
    \/ \E x \in Resources : Write(x) \/ Miss(x)
    \/ RDHandler
    \/ \E found \in DeletableResources : Discover(found)
    \/ \E g \in Gvrs : Reader(g)
    \/ Restart

Spec == Init /\ [][Next]_vars
=============================================================================
