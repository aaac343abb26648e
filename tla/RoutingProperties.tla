-------------------------- MODULE RoutingProperties --------------------------
(***************************************************************************)
(* What is expected of the routing of events to RDs.                       *)
(***************************************************************************)
EXTENDS EventRouting, FiniteSets

(* Every variable holds what the Go types allow; an array holds its list,  *)
(* and a goroutine is inside the list it ranges over.                      *)
TypeOK ==
    /\ known \in [RDs -> Selectors \cup {None}]
    /\ \A i \in 1..Len(feed) : feed[i].rd \in RDs
    /\ rdh.pc # "idle" => rdh.rd \in RDs /\ rdh.key \in Selectors
    /\ \A k \in Keys : byKey[k].list \in Seq(RDs) /\ Len(byKey[k].list) <= byKey[k].cap
    /\ keyOf \in [RDs -> Keys \cup {None}]
    /\ running = handlers
    /\ \A g \in Gvrs \ running : events[g] = <<>> /\ reader[g] = NoRead
    /\ \A g \in Gvrs : reader[g].pc = "loop" => reader[g].i \in 1..Len(reader[g].arr) + 1
    /\ pending \cup disturbed \cup shifted \subseteq RDs /\ missed \subseteq Resources

(* The RDs that key k leads to. *)
Found(k) == {byKey[k].list[i] : i \in 1..Len(byKey[k].list)}

(* An RD whose key makes EventFilter let an event through is found by that *)
(* key: the maps are written one after the other, by several handlers,     *)
(* for selectors that may have changed since, and cut from shared arrays.  *)
IndexFinds ==
    \A r \in RDs :
        keyOf[r] # None =>
            r \in Found(keyOf[r]) \/ (rdh.pc = "cut rd" /\ rdh.rd = r)

(* What the handlers of RD r still have to do. *)
Announced(r) == rdh.rd = r \/ \E i \in 1..Len(feed) : feed[i].rd = r

(* The index says of an RD that nothing disturbed what the cache says: it  *)
(* is found by the key of its selector, once, and by no other; a deleted   *)
(* one is not found at all.                                                *)
IndexIsCurrent ==
    \A r \in RDs \ disturbed :
        Announced(r) \/
        LET key == IF known[r] # None /\ Valid(known[r]) THEN known[r] ELSE None
        IN  /\ keyOf[r] = key
            /\ \A k \in Keys :
                  Cardinality({i \in 1..Len(byKey[k].list) : byKey[k].list[i] = r})
                    = IF k = key THEN 1 ELSE 0

(* A change of x that the last sync of r did not see. *)
Behind(r, x) ==
    {v \in synced[r] : v[1] = x} # {v \in View(r) : v[1] = x}

(* A change of x will still make r be synced. *)
Underway(r, x) ==
    LET g == x.gvr
        a == reader[g]
    IN  \/ r \in pending \/ Announced(r)
        \/ g \notin running
        \/ \E i \in 1..Len(events[g]) : events[g][i] = Event(x, TRUE)
        \/ a.pc = "lookup" /\ a.res = x
        \/ a.pc = "loop" /\ a.res = x /\ \E i \in a.i..Len(a.arr) : a.arr[i] = r

Watched(x) == x \notin Excluded /\ ~Disabled(x.gvr)

(* No change of a resource that an RD names is lost between discovery,     *)
(* filter, look-up and the loop over a shared array, whenever RDs come and *)
(* go meanwhile; with the exceptions that the history variables list.  A   *)
(* deletion that the watch missed is one of them, until the resource is    *)
(* there again.                                                            *)
NoLostChange ==
    \A r \in RDs \ (disturbed \cup shifted), x \in Resources \ missed :
        known[r] = x /\ Watched(x) /\ Behind(r, x) => Underway(r, x)

=============================================================================
