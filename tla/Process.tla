------------------------------- MODULE Process -------------------------------
(***************************************************************************)
(* The life of the process: the set-up in Start (cmd/serve/serve.go), the  *)
(* shared informer factory, the manager that runs the controllers, their   *)
(* Run with its workers, discoverResources, and the end after a signal.    *)
(***************************************************************************)
EXTENDS Naturals, Sequences

CONSTANT Threads  \* workers of a controller (4 in the code)

ASSUME ProcessConstants == Threads \in Nat \ {0}

Controllers == {"distribution", "workload"}

(* The generated informers: Informer, also through Lister, asks the        *)
(* factory for the one of this type, which lists and watches all objects.  *)
RDInformer == "ResourceDistribution"
ClusterInformer == "Cluster"
WorkloadInformer == "Workload"

(* The informers NewDistributionController and NewController ask for, and  *)
(* the one whose cache Run waits for.                                      *)
Asks == [c \in Controllers |->
            IF c = "distribution" THEN {RDInformer, ClusterInformer}
            ELSE {WorkloadInformer}]
Awaits == [c \in Controllers |->
              IF c = "distribution" THEN RDInformer ELSE WorkloadInformer]

VARIABLES
    main,      \* the steps of Start that are left, or how it ended
    created,   \* informers of the factory
    started,   \* those whose goroutine runs
    filled,    \* those that have listed what there is
    run,       \* where the Run of each controller is
    workers,   \* how many of its workers run
    discovery, \* whether discoverResources runs
    signals    \* SIGINT or SIGTERM

informers == <<created, started, filled>>
vars == <<main, informers, run, workers, discovery, signals>>

(* Mutant of Steps: the factory is started before the second controller    *)
(* has asked for its informer.                                             *)
StepsFactoryFirst == <<"configure", "distribution", "factory", "workload", "add", "serve">>

(* Start, in its order. *)
Steps == <<"configure", "distribution", "workload", "factory", "add", "serve">>

Ends == {<<"hang">>, <<"exit">>}

Init ==
    /\ main = Steps
    /\ created = {} /\ started = {} /\ filled = {}
    /\ run = [c \in Controllers |-> "none"]
    /\ workers = [c \in Controllers |-> 0]
    /\ discovery = FALSE
    /\ signals = 0

Lives == main # <<"exit">>

-----------------------------------------------------------------------------
(* Start *)

(* The configuration, the manager and the clients. *)
Configure ==
    /\ Head(main) = "configure"
    /\ main' = Tail(main)
    /\ UNCHANGED <<informers, run, workers, discovery, signals>>

(* InformerFor: one informer for each type, however often it is asked for. *)
New(c) ==
    /\ Head(main) = c
    /\ main' = Tail(main)
    /\ created' = created \cup Asks[c]
    /\ UNCHANGED <<started, filled, run, workers, discovery, signals>>

(* The factory starts what has been created so far. *)
StartFactory ==
    /\ Head(main) = "factory"
    /\ main' = Tail(main)
    /\ started' = created
    /\ UNCHANGED <<created, filled, run, workers, discovery, signals>>

AddControllers ==
    /\ Head(main) = "add"
    /\ main' = Tail(main)
    /\ run' = [c \in Controllers |-> "added"]
    /\ UNCHANGED <<informers, workers, discovery, signals>>

(* An error on the way, or a second signal: everything ends. *)
Exit ==
    /\ main' = <<"exit">>
    /\ run' = [c \in Controllers |-> "none"]
    /\ workers' = [c \in Controllers |-> 0]
    /\ discovery' = FALSE
    /\ started' = {} /\ filled' = {}
    /\ UNCHANGED <<created, signals>>

Abort == Len(main) > 1 /\ Head(main) \in {"configure", "add"} /\ Exit

(* The informers' goroutines, which no signal stops: the context of the    *)
(* factory is context.Background().                                        *)
Fill(t) ==
    /\ Lives
    /\ t \in started \ filled
    /\ filled' = filled \cup {t}
    /\ UNCHANGED <<main, created, started, run, workers, discovery, signals>>

-----------------------------------------------------------------------------
(* The manager *)

(* SetupSignalHandler: the first signal ends the context of the manager,   *)
(* the second one the process, as does any before the manager is started.  *)
Signal ==
    /\ Lives
    /\ IF signals = 0 /\ main = <<"serve">>
       THEN signals' = 1 /\ UNCHANGED <<main, informers, run, workers, discovery>>
       ELSE Exit

Busy == {"added", "waiting", "working"}

(* mgr.Start returns nil when its controllers have returned, and Start     *)
(* then waits for a channel that nobody closes.                            *)
Hang ==
    /\ main = <<"serve">> /\ signals > 0
    /\ \A c \in Controllers : run[c] \notin Busy
    /\ main' = <<"hang">>
    /\ UNCHANGED <<informers, run, workers, discovery, signals>>

(* It returns the error of a controller, or that they take too long to     *)
(* return: log.Fatalln.                                                    *)
Fatal ==
    /\ main = <<"serve">>
    /\ signals > 0
    /\ \E c \in Controllers : run[c] \in Busy \cup {"failed"}
    /\ Exit

-----------------------------------------------------------------------------
(* The controllers *)

Begin(c) ==
    /\ main = <<"serve">>
    /\ run[c] = "added"
    /\ run' = [run EXCEPT ![c] = "waiting"]
    /\ UNCHANGED <<main, informers, workers, discovery, signals>>

(* Mutant of Synced: the cache is not waited for. *)
Unsynced(c) == TRUE

(* WaitForCacheSync *)
Synced(c) == Awaits[c] \in filled

(* Mutant of Work: workers are started, and Run waits on.                  *)
WorkAgain(c) ==
    /\ Lives
    /\ run[c] = "waiting"
    /\ Synced(c)
    /\ workers[c] <= Threads
    /\ workers' = [workers EXCEPT ![c] = @ + Threads]
    /\ UNCHANGED <<main, informers, run, discovery, signals>>

(* The workers; DistributionController also has discoverResources. *)
Work(c) ==
    /\ Lives
    /\ run[c] = "waiting"
    /\ Synced(c)
    /\ run' = [run EXCEPT ![c] = "working"]
    /\ workers' = [workers EXCEPT ![c] = Threads]
    /\ discovery' = (discovery \/ c = "distribution")
    /\ UNCHANGED <<main, informers, signals>>

(* "failed to wait for caches to sync" *)
GiveUp(c) ==
    /\ Lives
    /\ run[c] = "waiting"
    /\ signals > 0 /\ ~Synced(c)
    /\ run' = [run EXCEPT ![c] = "failed"]
    /\ UNCHANGED <<main, informers, workers, discovery, signals>>

(* Mutant of Return: the queue is not shut down. *)
ReturnOpen(c) ==
    /\ Lives
    /\ run[c] = "working" /\ signals > 0
    /\ run' = [run EXCEPT ![c] = "failed"]
    /\ UNCHANGED <<main, informers, workers, discovery, signals>>

(* Run returns and shuts its queue down. *)
Return(c) ==
    /\ Lives
    /\ run[c] = "working" /\ signals > 0
    /\ run' = [run EXCEPT ![c] = "returned"]
    /\ UNCHANGED <<main, informers, workers, discovery, signals>>

(* A worker finds the queue shut down and empty, see WorkQueue. *)
Leave(c) ==
    /\ run[c] = "returned" /\ workers[c] > 0
    /\ workers' = [workers EXCEPT ![c] = @ - 1]
    /\ UNCHANGED <<main, informers, run, discovery, signals>>

EndDiscovery ==
    /\ discovery /\ signals > 0
    /\ discovery' = FALSE
    /\ UNCHANGED <<main, informers, run, workers, signals>>

-----------------------------------------------------------------------------
SetUp == Configure \/ StartFactory \/ AddControllers \/ \E c \in Controllers : New(c)

Controller(c) ==
    Begin(c) \/ Work(c) \/ GiveUp(c) \/ Return(c) \/ Leave(c)

Next ==
    \/ SetUp \/ Abort
    \/ \E t \in created : Fill(t)
    \/ Signal \/ Hang \/ Fatal
    \/ \E c \in Controllers : Controller(c)
    \/ EndDiscovery

(* Goroutines go on, informers list what there is. *)
Fairness ==
    /\ WF_vars(SetUp)
    /\ \A c \in Controllers : WF_vars(Controller(c)) /\ WF_vars(Fill(Awaits[c]))
    /\ WF_vars(EndDiscovery)

Spec == Init /\ [][Next]_vars

FairSpec == Spec /\ Fairness

-----------------------------------------------------------------------------
(* Properties *)

(* Every variable holds one of its values; the end leaves nothing running. *)
TypeOK ==
    /\ main \in Ends \/ \E i \in 1..Len(Steps) : main = SubSeq(Steps, i, Len(Steps))
    /\ filled \subseteq started /\ started \subseteq created
    /\ workers \in [Controllers -> 0..Threads]
    /\ \A c \in Controllers :
          run[c] \in Busy \cup {"none", "failed", "returned"}
    /\ discovery \in BOOLEAN /\ signals \in {0, 1}
    /\ ~Lives => started = {} /\ ~discovery

(* A worker never reads a cache that is still being filled: it would take  *)
(* an object that is not listed yet for a deleted one.                     *)
WorkersFindACache ==
    \A c \in Controllers : workers[c] > 0 => Awaits[c] \in filled

(* Every controller gets to work: the informer it waits for was created    *)
(* before the factory was started, or a signal or an error came first.     *)
ControllersWork ==
    <>(\/ \A c \in Controllers : run[c] = "working"
       \/ signals > 0 \/ ~Lives)

(* After a signal no worker takes another key, and nothing is discovered,  *)
(* although the informers go on and the process may stay.                  *)
WorkEnds ==
    signals > 0 ~> (~discovery /\ \A c \in Controllers : workers[c] = 0)
=============================================================================
