---------------------------- MODULE SingleFlight ----------------------------
(***************************************************************************)
(* What a controller of this repository relies on its work queue for.      *)
(*                                                                         *)
(* A key is requested (enqueue), taken by one worker, and released; a      *)
(* request made while the key is being worked on is kept and served by a   *)
(* later take, never by a second worker at the same time; a failed key is  *)
(* deferred and requested again.  How the queue does it is WorkQueue.tla,  *)
(* which implements this module; WorkloadController.tla is built on it.    *)
(***************************************************************************)
EXTENDS Naturals

CONSTANTS
    Keys,       \* the namespace/name keys
    Workers,    \* the goroutines Run starts (4 in the code)
    Idle        \* what a worker without a key works on

VARIABLES
    pending,    \* keys some worker still has to take
    deferred,   \* failed keys that wait for their back-off
    active      \* the key each worker works on, or Idle

sfvars == <<pending, deferred, active>>

SFTypeOK ==
    /\ pending \subseteq Keys
    /\ deferred \subseteq Keys
    /\ active \in [Workers -> Keys \cup {Idle}]

SFInit ==
    /\ pending = {}
    /\ deferred = {}
    /\ active = [p \in Workers |-> Idle]

(* enqueue: a key that is already pending is not added twice. *)
Request(k) ==
    /\ pending' = pending \cup {k}
    /\ UNCHANGED <<deferred, active>>

(* A worker without a key takes a pending one that nobody works on. *)
Begin(p, k) ==
    /\ active[p] = Idle
    /\ k \in pending
    /\ \A q \in Workers : active[q] # k
    /\ pending' = pending \ {k}
    /\ active' = [active EXCEPT ![p] = k]
    /\ UNCHANGED deferred

(* The handler failed: its key is to be tried again after a back-off. *)
Defer(p) ==
    /\ active[p] # Idle
    /\ deferred' = deferred \cup {active[p]}
    /\ UNCHANGED <<pending, active>>

(* The back-off of a deferred key is over. *)
Fire(k) ==
    /\ k \in deferred
    /\ deferred' = deferred \ {k}
    /\ pending' = pending \cup {k}
    /\ UNCHANGED active

(* The worker is done with its key. *)
End(p) ==
    /\ active[p] # Idle
    /\ active' = [active EXCEPT ![p] = Idle]
    /\ UNCHANGED <<pending, deferred>>

(* The process dies and is started again: the queue is not persistent. *)
Restart ==
    /\ pending' = {}
    /\ deferred' = {}
    /\ active' = [p \in Workers |-> Idle]

SFNext ==
    \/ \E k \in Keys : Request(k) \/ Fire(k)
    \/ \E p \in Workers : Defer(p) \/ End(p) \/ \E k \in Keys : Begin(p, k)
    \/ Restart

SFSpec == SFInit /\ [][SFNext]_sfvars
=============================================================================
