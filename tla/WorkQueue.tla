----------------------------- MODULE WorkQueue -----------------------------
(***************************************************************************)
(* The rate limiting work queue both controllers share the design of, and  *)
(* the loops that serve it: Run, runWorker and processNextWorkItem of      *)
(* workload_controller.go and, line for line the same, of                  *)
(* resource_controller.go.  The queue itself is k8s.io/client-go v0.25.5,  *)
(* which is not part of the repository: its three collections (queue,      *)
(* dirty, processing) and its delaying part are modelled from the calls    *)
(* Add, Get, AddRateLimited, Done and ShutDown the controllers make.       *)
(***************************************************************************)
EXTENDS Integers, Sequences, Functions

CONSTANTS
    Keys,       \* the namespace/name keys
    Workers,    \* the goroutines Run starts (4 in the code)
    Idle        \* what a worker without a key holds

ASSUME IdleIsNoKey == Idle \notin Keys

VARIABLES
    queue,          \* the keys in the order Get hands them out
    dirty,          \* the keys that have to be processed
    processing,     \* the keys between Get and Done
    waiting,        \* the keys the delaying queue will add later
    shuttingDown,   \* the queue was shut down
    pc,             \* what each worker is at
    held,           \* the key of each worker, or Idle
    returned        \* Run has returned

vars == <<queue, dirty, processing, waiting, shuttingDown, pc, held, returned>>

Places == {"get", "handle", "done", "exited"}

Init ==
    /\ queue = <<>>
    /\ dirty = {}
    /\ processing = {}
    /\ waiting = {}
    /\ shuttingDown = FALSE
    /\ pc = [p \in Workers |-> "get"]
    /\ held = [p \in Workers |-> Idle]
    /\ returned = FALSE

-----------------------------------------------------------------------------
(* The queue *)

(* Add: a dirty key is there already; a key being processed is only        *)
(* marked, Done will queue it; a queue shutting down takes nothing.        *)
QueueAdd(k) ==
    IF shuttingDown \/ k \in dirty
    THEN UNCHANGED <<queue, dirty>>
    ELSE /\ dirty' = dirty \cup {k}
         /\ queue' = IF k \in processing THEN queue ELSE Append(queue, k)

(* Done: a key that was added while it was processed is queued again. *)
QueueDone(k) ==
    /\ processing' = processing \ {k}
    /\ queue' = IF k \in dirty THEN Append(queue, k) ELSE queue

-----------------------------------------------------------------------------
(* What happens to it *)

(* enqueue, called by an event handler of the informer. *)
Enqueue(k) ==
    /\ QueueAdd(k)
    /\ UNCHANGED <<processing, waiting, shuttingDown, pc, held, returned>>

(* Mutant of Get: Done is called at once instead of deferred. *)
GetAndDone(p) ==
    /\ pc[p] = "get"
    /\ queue # <<>>
    /\ queue' = Tail(queue)
    /\ dirty' = dirty \ {Head(queue)}
    /\ held' = [held EXCEPT ![p] = Head(queue)]
    /\ pc' = [pc EXCEPT ![p] = "handle"]
    /\ UNCHANGED <<processing, waiting, shuttingDown, returned>>

(* Get hands the oldest key to a worker in processNextWorkItem. *)
Get(p) ==
    /\ pc[p] = "get"
    /\ queue # <<>>
    /\ queue' = Tail(queue)
    /\ dirty' = dirty \ {Head(queue)}
    /\ processing' = processing \cup {Head(queue)}
    /\ held' = [held EXCEPT ![p] = Head(queue)]
    /\ pc' = [pc EXCEPT ![p] = "handle"]
    /\ UNCHANGED <<waiting, shuttingDown, returned>>

(* Mutant of Exit: the worker leaves at the shutdown, whatever is queued. *)
ExitAtOnce(p) ==
    /\ pc[p] = "get"
    /\ shuttingDown
    /\ pc' = [pc EXCEPT ![p] = "exited"]
    /\ UNCHANGED <<queue, dirty, processing, waiting, shuttingDown, held, returned>>

(* Get reports the shutdown only when no key is left; runWorker returns. *)
Exit(p) ==
    /\ pc[p] = "get"
    /\ queue = <<>>
    /\ shuttingDown
    /\ pc' = [pc EXCEPT ![p] = "exited"]
    /\ UNCHANGED <<queue, dirty, processing, waiting, shuttingDown, held, returned>>

(* syncHandler returned nil: Forget, and the deferred Done is next. *)
Succeed(p) ==
    /\ pc[p] = "handle"
    /\ pc' = [pc EXCEPT ![p] = "done"]
    /\ UNCHANGED <<queue, dirty, processing, waiting, shuttingDown, held, returned>>

(* Mutant of Fail: AddRateLimited comes after Done, which took the key. *)
FailAfterDone(p) ==
    /\ pc[p] = "get"
    /\ waiting' = IF shuttingDown THEN waiting ELSE waiting \cup {held[p]}
    /\ UNCHANGED <<queue, dirty, processing, shuttingDown, pc, held, returned>>

(* syncHandler returned an error: AddRateLimited, before the deferred      *)
(* Done; a queue shutting down drops the key.                              *)
Fail(p) ==
    /\ pc[p] = "handle"
    /\ pc' = [pc EXCEPT ![p] = "done"]
    /\ waiting' = IF shuttingDown THEN waiting ELSE waiting \cup {held[p]}
    /\ UNCHANGED <<queue, dirty, processing, shuttingDown, held, returned>>

(* Mutant of Done: it is forgotten. *)
DoneForgotten(p) ==
    /\ pc[p] = "done"
    /\ held' = [held EXCEPT ![p] = Idle]
    /\ pc' = [pc EXCEPT ![p] = "get"]
    /\ UNCHANGED <<queue, dirty, processing, waiting, shuttingDown, returned>>

(* The deferred Done, after which runWorker calls processNextWorkItem. *)
Done(p) ==
    /\ pc[p] = "done"
    /\ QueueDone(held[p])
    /\ held' = [held EXCEPT ![p] = Idle]
    /\ pc' = [pc EXCEPT ![p] = "get"]
    /\ UNCHANGED <<dirty, waiting, shuttingDown, returned>>

(* The waiting loop of the delaying queue adds a key that is ready; it     *)
(* ends at the shutdown, with the keys it still held.                      *)
WaitingLoop(k) ==
    /\ ~shuttingDown
    /\ k \in waiting
    /\ waiting' = waiting \ {k}
    /\ QueueAdd(k)
    /\ UNCHANGED <<processing, shuttingDown, pc, held, returned>>

(* ctx is done: the deferred ShutDown of Run. *)
ShutDown ==
    /\ ~shuttingDown
    /\ shuttingDown' = TRUE
    /\ UNCHANGED <<queue, dirty, processing, waiting, pc, held, returned>>

(* Run returns; the workers are goroutines of their own and go on.  (The   *)
(* process stays: serve waits for a channel nobody closes.)                *)
RunReturns ==
    /\ shuttingDown
    /\ ~returned
    /\ returned' = TRUE
    /\ UNCHANGED <<queue, dirty, processing, waiting, shuttingDown, pc, held>>

Next ==
    \/ \E k \in Keys : Enqueue(k) \/ WaitingLoop(k)
    \/ \E p \in Workers : Get(p) \/ Exit(p) \/ Succeed(p) \/ Fail(p) \/ Done(p)
    \/ ShutDown
    \/ RunReturns

(* The goroutines run; a handler returns; a back-off ends.  Nothing makes  *)
(* an informer enqueue or the process stop.                                *)
Fairness ==
    /\ \A p \in Workers : WF_vars(Get(p) \/ Exit(p))
    /\ \A p \in Workers : WF_vars(Succeed(p) \/ Fail(p))
    /\ \A p \in Workers : WF_vars(Done(p))
    /\ \A k \in Keys : WF_vars(WaitingLoop(k))

Spec == Init /\ [][Next]_vars

FairSpec == Spec /\ Fairness

-----------------------------------------------------------------------------
(* Properties *)

(* Every variable holds what its declaration in client-go says. *)
TypeOK ==
    /\ queue \in Seq(Keys)
    /\ dirty \subseteq Keys
    /\ processing \subseteq Keys
    /\ waiting \subseteq Keys
    /\ shuttingDown \in BOOLEAN
    /\ pc \in [Workers -> Places]
    /\ held \in [Workers -> Keys \cup {Idle}]
    /\ returned \in BOOLEAN

(* The queue holds the dirty keys nobody processes, and nothing else. *)
QueuedIsDirty == Range(queue) = dirty \ processing

(* A key is queued at most once, however many events asked for it. *)
QueuedOnce ==
    \A i, j \in 1..Len(queue) : queue[i] = queue[j] => i = j

(* The keys being processed are those the workers hold between Get and     *)
(* the deferred Done of processNextWorkItem.                               *)
HeldIsProcessing ==
    /\ processing = Range(held) \ {Idle}
    /\ \A p \in Workers : held[p] # Idle <=> pc[p] \in {"handle", "done"}

(* No key is in the hands of two workers. *)
HeldOnce ==
    \A p, q \in Workers : held[p] = held[q] /\ held[p] # Idle => p = q

(* The three collections and the workers agree: a key that was asked for   *)
(* while a worker had it is neither lost nor handed out twice.             *)
QueueInv == QueuedIsDirty /\ QueuedOnce /\ HeldIsProcessing /\ HeldOnce

(* When every worker has left its loop, no accepted key is left behind:    *)
(* the exit test of Get and the re-queueing of Done fit together, also     *)
(* for a key added while the last worker had it.                           *)
DrainedOnExit ==
    Workers # {} /\ (\A p \in Workers : pc[p] = "exited") => dirty = {}

(* A key that was asked for is handed to a worker, however often the other *)
(* keys are asked for and also during a shutdown (the queue is FIFO).      *)
Served == \A k \in Keys : k \in dirty ~> k \notin dirty

(* The queue and its workers implement SingleFlight. *)
SF == INSTANCE SingleFlight
        WITH pending <- dirty, deferred <- waiting, active <- held

ImplementsSingleFlight == SF!SFSpec
=============================================================================
