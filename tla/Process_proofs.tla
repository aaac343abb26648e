---------------------------- MODULE Process_proofs ----------------------------
(***************************************************************************)
(* Theorems about Process, for any number of workers.                      *)
(***************************************************************************)
EXTENDS Process, TLAPS

(* The steps of Start that may be left. *)
Lefts == {
    <<"configure", "distribution", "workload", "factory", "add", "serve">>,
    <<"distribution", "workload", "factory", "add", "serve">>,
    <<"workload", "factory", "add", "serve">>,
    <<"factory", "add", "serve">>,
    <<"add", "serve">>,
    <<"serve">>}

Serving == main = <<"serve">> \/ main = <<"hang">>

(* What holds of one controller: its Run is called when Start has done all *)
(* its steps, it has workers only after it waited for its cache.           *)
ControllerOK(c) ==
    /\ run[c] \in Busy \cup {"none", "failed", "returned"}
    /\ workers[c] \in 0..Threads
    /\ run[c] # "none" => main # <<"exit">>
    /\ run[c] \in {"working", "returned"} => Awaits[c] \in filled
    /\ workers[c] > 0 => run[c] \in {"working", "returned"}
    /\ main \in Lefts \ {<<"serve">>} => run[c] = "none"

Inv ==
    /\ main \in Lefts \cup Ends
    /\ filled \subseteq started /\ started \subseteq created
    /\ run = [c \in Controllers |-> run[c]]
    /\ workers = [c \in Controllers |-> workers[c]]
    /\ \A c \in Controllers : ControllerOK(c)
    /\ discovery \in BOOLEAN /\ signals \in {0, 1}
    /\ ~Lives => started = {} /\ ~discovery
    /\ main \in Lefts \ {<<"serve">>} => ~discovery

(* A step of Start takes the first of those that are left, and the steps   *)
(* of Start are not over before the last.                                  *)
LEMMA StartSteps ==
    ASSUME main \in Lefts
    PROVE  /\ main = <<"serve">> \/ Tail(main) \in Lefts
           /\ Head(main) = "add" => Tail(main) = <<"serve">>
           /\ Head(main) = "serve" <=> main = <<"serve">>
           /\ Head(main) \in {"configure", "distribution", "workload", "factory"}
                => Tail(main) \in Lefts \ {<<"serve">>}
           /\ main \notin Ends
<1>1. CASE main = <<"configure", "distribution", "workload", "factory", "add", "serve">>
  BY <1>1 DEF Lefts, Ends
<1>2. CASE main = <<"distribution", "workload", "factory", "add", "serve">>
  BY <1>2 DEF Lefts, Ends
<1>3. CASE main = <<"workload", "factory", "add", "serve">>
  BY <1>3 DEF Lefts, Ends
<1>4. CASE main = <<"factory", "add", "serve">>
  BY <1>4 DEF Lefts, Ends
<1>5. CASE main = <<"add", "serve">>
  BY <1>5 DEF Lefts, Ends
<1>6. CASE main = <<"serve">>
  BY <1>6 DEF Lefts, Ends
<1>7. QED
  BY <1>1, <1>2, <1>3, <1>4, <1>5, <1>6 DEF Lefts

LEMMA EndSteps ==
    ASSUME main \in Ends
    PROVE  /\ Head(main) \in {"hang", "exit"}
           /\ main \notin Lefts
<1>1. CASE main = <<"hang">>
  BY <1>1 DEF Lefts
<1>2. CASE main = <<"exit">>
  BY <1>2 DEF Lefts
<1>3. QED
  BY <1>1, <1>2 DEF Ends

LEMMA InitInv == Init => Inv
<1>1. SUFFICES ASSUME Init PROVE Inv
  OBVIOUS
<1>2. main \in Lefts /\ main # <<"exit">>
  BY <1>1 DEF Init, Lefts, Steps
<1>3. \A c \in Controllers : run[c] = "none" /\ workers[c] = 0
  BY <1>1 DEF Init
<1>4. \A c \in Controllers : ControllerOK(c)
  BY <1>3, ProcessConstants DEF ControllerOK
<1>5. QED
  BY <1>1, <1>2, <1>4 DEF Init, Inv, Lives

(* The steps of Start keep the invariant. *)
LEMMA SetUpInv == ASSUME Inv, SetUp PROVE Inv'
<1>1. main \in Lefts
  BY EndSteps DEF Inv, SetUp, Configure, New, StartFactory, AddControllers, Controllers
<1>2. main' = Tail(main)
  BY DEF SetUp, Configure, New, StartFactory, AddControllers
<1>3. CASE AddControllers
  <2>1. main' = <<"serve">> /\ <<"serve">> \in Lefts /\ main # <<"serve">>
    BY <1>1, <1>2, <1>3, StartSteps DEF AddControllers, Lefts
  <2>2. <<"serve">> # <<"exit">>
    OBVIOUS
  <2>3. \A c \in Controllers : run[c] = "none" /\ run'[c] = "added" /\ workers'[c] = workers[c]
    BY <1>1, <1>3, <2>1 DEF AddControllers, Inv, ControllerOK
  <2>4. \A c \in Controllers : ControllerOK(c)'
    BY <1>3, <2>1, <2>2, <2>3 DEF AddControllers, Inv, ControllerOK, Busy
  <2>5. QED
    BY <1>3, <2>1, <2>2, <2>4 DEF AddControllers, Inv, Lives, informers
<1>4. CASE Configure \/ StartFactory \/ \E c \in Controllers : New(c)
  <2>1. main' \in Lefts \ {<<"serve">>}
    BY <1>1, <1>2, <1>4, StartSteps DEF Configure, StartFactory, New, Controllers
  <2>2. main' # <<"exit">> /\ main # <<"serve">> /\ main # <<"exit">>
    <3>1. <<"exit">> \notin Lefts
      BY DEF Lefts
    <3>2. QED
      BY <1>1, <1>4, <2>1, <3>1, StartSteps DEF Configure, StartFactory, New, Controllers
  <2>3. \A c \in Controllers : run[c] = "none"
    BY <1>1, <2>2 DEF Inv, ControllerOK
  <2>4. UNCHANGED <<run, workers, discovery, signals>>
    BY <1>4 DEF Configure, StartFactory, New
  <2>5. \A c \in Controllers : ControllerOK(c)'
    BY <2>2, <2>3, <2>4 DEF Inv, ControllerOK
  <2>6. filled' \subseteq started' /\ started' \subseteq created'
    BY <1>4 DEF Configure, StartFactory, New, informers, Inv
  <2>7. QED
    BY <1>1, <2>1, <2>2, <2>4, <2>5, <2>6 DEF Inv, Lives
<1>5. QED
  BY <1>3, <1>4 DEF SetUp

LEMMA ExitInv == ASSUME Inv, Exit PROVE Inv'
<1>1. main' \in Ends /\ main' \notin Lefts
  BY DEF Exit, Ends, Lefts
<1>2. \A c \in Controllers : run'[c] = "none" /\ workers'[c] = 0
  BY DEF Exit
<1>3. \A c \in Controllers : ControllerOK(c)'
  BY <1>1, <1>2, ProcessConstants DEF ControllerOK
<1>4. QED
  BY <1>1, <1>3 DEF Exit, Inv, Lives

(* The steps of a controller do. *)
LEMMA ControllerInv ==
    ASSUME Inv, NEW c \in Controllers, Controller(c) PROVE Inv'
<1>1. UNCHANGED <<main, informers, signals>>
  BY DEF Controller, Begin, Work, GiveUp, Return, Leave
<1>2. run[c] # "none" /\ main \notin Lefts \ {<<"serve">>} /\ Lives
  BY DEF Controller, Begin, Work, GiveUp, Return, Leave, Inv, ControllerOK, Lives
<1>3. \A d \in Controllers \ {c} : run'[d] = run[d] /\ workers'[d] = workers[d]
  BY DEF Controller, Begin, Work, GiveUp, Return, Leave, Inv
<1>4. ControllerOK(c)'
  <2>1. CASE Begin(c)
    BY <1>1, <1>2, <2>1 DEF Begin, Inv, ControllerOK, Busy, informers, Lives
  <2>2. CASE Work(c)
    BY <1>1, <1>2, <2>2, ProcessConstants DEF Work, Synced, Inv, ControllerOK, Busy, informers, Lives
  <2>3. CASE GiveUp(c)
    BY <1>1, <1>2, <2>3 DEF GiveUp, Inv, ControllerOK, Busy, informers, Lives
  <2>4. CASE Return(c)
    BY <1>1, <1>2, <2>4 DEF Return, Inv, ControllerOK, Busy, informers, Lives
  <2>5. CASE Leave(c)
    BY <1>1, <1>2, <2>5, ProcessConstants DEF Leave, Inv, ControllerOK, Busy, informers, Lives
  <2>6. QED
    BY <2>1, <2>2, <2>3, <2>4, <2>5 DEF Controller
<1>5. \A d \in Controllers : ControllerOK(d)'
  BY <1>1, <1>3, <1>4 DEF Inv, ControllerOK, informers
<1>6. /\ run' = [d \in Controllers |-> run'[d]]
      /\ workers' = [d \in Controllers |-> workers'[d]]
      /\ discovery' \in BOOLEAN
  BY DEF Controller, Begin, Work, GiveUp, Return, Leave, Inv
<1>7. QED
  BY <1>1, <1>2, <1>5, <1>6 DEF Inv, Lives, informers

LEMMA NextInv == Inv /\ [Next]_vars => Inv'
<1>1. SUFFICES ASSUME Inv, [Next]_vars PROVE Inv'
  OBVIOUS
<1>2. CASE SetUp
  BY <1>1, <1>2, SetUpInv
<1>3. CASE Abort
  BY <1>1, <1>3, ExitInv DEF Abort
<1>4. ASSUME NEW t \in created, Fill(t) PROVE Inv'
  <2>1. \A c \in Controllers : ControllerOK(c)'
    BY <1>1, <1>4 DEF Inv, ControllerOK, Fill
  <2>2. QED
    BY <1>1, <1>4, <2>1 DEF Inv, Fill, Lives
<1>5. CASE Signal
  <2>1. CASE Exit
    BY <1>1, <2>1, ExitInv
  <2>2. CASE signals' = 1 /\ UNCHANGED <<main, informers, run, workers, discovery>>
    <3>1. \A c \in Controllers : ControllerOK(c)'
      BY <1>1, <2>2 DEF Inv, ControllerOK, informers
    <3>2. QED
      BY <1>1, <2>2, <3>1 DEF Inv, Lives, informers
  <2>3. QED
    BY <1>5, <2>1, <2>2 DEF Signal
<1>6. CASE Hang
  <2>1. main' \in Ends /\ main' \notin Lefts /\ main' # <<"exit">>
    BY <1>6 DEF Hang, Ends, Lefts
  <2>2. \A c \in Controllers : ControllerOK(c)'
    BY <1>1, <1>6, <2>1 DEF Inv, ControllerOK, Hang, informers
  <2>3. QED
    BY <1>1, <1>6, <2>1, <2>2 DEF Inv, Hang, Lives, informers
<1>7. CASE Fatal
  BY <1>1, <1>7, ExitInv DEF Fatal
<1>8. ASSUME NEW c \in Controllers, Controller(c) PROVE Inv'
  BY <1>1, <1>8, ControllerInv
<1>9. CASE EndDiscovery
  <2>1. \A c \in Controllers : ControllerOK(c)'
    BY <1>1, <1>9 DEF Inv, ControllerOK, EndDiscovery, informers
  <2>2. QED
    BY <1>1, <1>9, <2>1 DEF Inv, EndDiscovery, Lives, informers
<1>10. CASE UNCHANGED vars
  <2>1. \A c \in Controllers : ControllerOK(c)'
    BY <1>1, <1>10 DEF Inv, ControllerOK, vars, informers
  <2>2. QED
    BY <1>1, <1>10, <2>1 DEF Inv, vars, Lives, informers
<1>11. QED
  BY <1>1, <1>2, <1>3, <1>4, <1>5, <1>6, <1>7, <1>8, <1>9, <1>10 DEF Next

LEMMA Invariance == Spec => []Inv
BY InitInv, NextInv, PTL DEF Spec

(* What is left of Start is the end of Steps. *)
LEMMA LeftsAreEnds ==
    ASSUME main \in Lefts
    PROVE  \E i \in 1..Len(Steps) : main = SubSeq(Steps, i, Len(Steps))
<1> DEFINE Left(i) == [j \in 1..(6 - i + 1) |-> Steps[i + j - 1]]
<1>1. Len(Steps) = 6
  BY DEF Steps
<1>2. \A i \in 1..6 : SubSeq(Steps, i, Len(Steps)) = Left(i)
  BY <1>1
<1>3. \E i \in 1..6 : main = Left(i)
  <2>1. CASE main = <<"configure", "distribution", "workload", "factory", "add", "serve">>
    <3>1. main = Left(1)
      BY <2>1 DEF Steps
    <3>2. QED
      BY <3>1
  <2>2. CASE main = <<"distribution", "workload", "factory", "add", "serve">>
    <3>1. main = Left(2)
      BY <2>2 DEF Steps
    <3>2. QED
      BY <3>1
  <2>3. CASE main = <<"workload", "factory", "add", "serve">>
    <3>1. main = Left(3)
      BY <2>3 DEF Steps
    <3>2. QED
      BY <3>1
  <2>4. CASE main = <<"factory", "add", "serve">>
    <3>1. main = Left(4)
      BY <2>4 DEF Steps
    <3>2. QED
      BY <3>1
  <2>5. CASE main = <<"add", "serve">>
    <3>1. main = Left(5)
      BY <2>5 DEF Steps
    <3>2. QED
      BY <3>1
  <2>6. CASE main = <<"serve">>
    <3>1. main = Left(6)
      BY <2>6 DEF Steps
    <3>2. QED
      BY <3>1
  <2>7. QED
    BY <2>1, <2>2, <2>3, <2>4, <2>5, <2>6 DEF Lefts
<1>4. QED
  BY <1>1, <1>2, <1>3

(* Every variable holds one of its values, and the end leaves nothing      *)
(* running, however Start, the manager, the controllers, the informers and *)
(* signals interleave.                                                     *)
THEOREM TypeCorrect == Spec => []TypeOK
<1>1. Inv => TypeOK
  <2>1. SUFFICES ASSUME Inv PROVE TypeOK
    OBVIOUS
  <2>2. main \in Ends \/ \E i \in 1..Len(Steps) : main = SubSeq(Steps, i, Len(Steps))
    BY <2>1, LeftsAreEnds DEF Inv
  <2>3. QED
    BY <2>1, <2>2 DEF Inv, TypeOK, ControllerOK
<1>2. QED
  BY <1>1, Invariance, PTL

(* No worker, of however many, runs before Run has seen the cache filled   *)
(* that its handler reads.                                                 *)
THEOREM CachesAreFound == Spec => []WorkersFindACache
<1>1. Inv => WorkersFindACache
  BY DEF Inv, ControllerOK, WorkersFindACache
<1>2. QED
  BY <1>1, Invariance, PTL
===============================================================================
