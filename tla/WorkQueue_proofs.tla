-------------------------- MODULE WorkQueue_proofs --------------------------
(***************************************************************************)
(* Theorems about WorkQueue, for any set of keys and any number of         *)
(* workers.                                                                *)
(***************************************************************************)
EXTENDS WorkQueue, SequenceTheorems, TLAPS

NoRepeat(s) == \A i, j \in 1..Len(s) : s[i] = s[j] => i = j

LEMMA EmptyIsOnce ==
    ASSUME NEW S, NEW s \in Seq(S), s = <<>>
    PROVE  Range(s) = {} /\ NoRepeat(s)
<1>1. 1..Len(s) = {}
  <2>1. Len(s) = 0
    BY EmptySeq, Zenon
  <2>2. QED
    BY <2>1
<1>2. \A t \in Seq(S) : Range(t) = {t[i] : i \in 1..Len(t)}
  BY RangeEquality
<1>3. Range(s) = {}
  BY <1>1, <1>2
<1>4. QED
  BY <1>2, <1>3 DEF NoRepeat

(* Appending an element that is not there yet. *)
LEMMA AppendNew ==
    ASSUME NEW S, NEW s \in Seq(S), NEW e \in S,
           NoRepeat(s), e \notin Range(s)
    PROVE  /\ Append(s, e) \in Seq(S)
           /\ NoRepeat(Append(s, e))
           /\ Range(Append(s, e)) = Range(s) \cup {e}
<1> DEFINE t == Append(s, e)
<1>1. /\ t \in Seq(S) /\ Len(t) = Len(s) + 1 /\ Len(s) \in Nat
      /\ \A i \in 1..Len(s) : t[i] = s[i]
      /\ t[Len(s) + 1] = e
  BY AppendProperties, LenProperties
<1>2. /\ Range(s) = {s[i] : i \in 1..Len(s)}
      /\ Range(t) = {t[i] : i \in 1..Len(t)}
  BY <1>1, RangeEquality
<1>3. 1..Len(t) = 1..Len(s) \cup {Len(s) + 1}
  BY <1>1
<1> HIDE DEF t
<1>4. \A i \in 1..Len(s) : s[i] # e
  BY <1>2
<1>5. NoRepeat(t)
  BY <1>1, <1>3, <1>4 DEF NoRepeat
<1>6. Range(t) = Range(s) \cup {e}
  BY <1>1, <1>2, <1>3
<1>7. QED
  BY <1>1, <1>5, <1>6 DEF t

(* Taking the first element off. *)
LEMMA TailOnce ==
    ASSUME NEW S, NEW s \in Seq(S), s # <<>>, NoRepeat(s)
    PROVE  /\ Head(s) \in S /\ Tail(s) \in Seq(S)
           /\ NoRepeat(Tail(s))
           /\ Head(s) \in Range(s)
           /\ Range(Tail(s)) = Range(s) \ {Head(s)}
<1> DEFINE t == Tail(s)
<1>1. /\ Head(s) \in S /\ t \in Seq(S) /\ Len(t) = Len(s) - 1
      /\ \A i \in 1..Len(t) : t[i] = s[i + 1]
      /\ Len(s) \in Nat \ {0} /\ Head(s) = s[1]
  BY HeadTailProperties, LenProperties, EmptySeq
<1> HIDE DEF t
<1>2. /\ Range(s) = {s[i] : i \in 1..Len(s)}
      /\ Range(t) = {t[i] : i \in 1..Len(t)}
  <2>1. Range(s) = {s[i] : i \in 1..Len(s)}
    BY RangeEquality
  <2>2. Range(t) = {t[i] : i \in 1..Len(t)}
    BY <1>1, RangeEquality
  <2>3. QED
    BY <2>1, <2>2
<1>3. NoRepeat(t)
  <2>1. SUFFICES ASSUME NEW i \in 1..Len(t), NEW j \in 1..Len(t), t[i] = t[j]
                 PROVE  i = j
    BY DEF NoRepeat
  <2>2. i + 1 \in 1..Len(s) /\ j + 1 \in 1..Len(s) /\ s[i + 1] = s[j + 1]
    BY <1>1, <2>1
  <2>3. QED
    BY <2>2 DEF NoRepeat
<1>4. Head(s) \in Range(s)
  BY <1>1, <1>2
<1>5. ASSUME NEW x
      PROVE  x \in Range(t) <=> x \in Range(s) /\ x # Head(s)
  <2>1. ASSUME x \in Range(t) PROVE x \in Range(s) /\ x # Head(s)
    <3>0. PICK i \in 1..Len(t) : x = t[i]
      BY <1>2, <2>1
    <3>1. x = s[i + 1]
      BY <1>1, <3>0
    <3>2. i + 1 \in 1..Len(s) /\ 1 \in 1..Len(s) /\ i + 1 # 1
      BY <1>1
    <3>3. QED
      BY <1>1, <1>2, <3>1, <3>2 DEF NoRepeat
  <2>2. ASSUME x \in Range(s), x # Head(s) PROVE x \in Range(t)
    <3>1. PICK i \in 1..Len(s) : x = s[i]
      BY <1>2, <2>2
    <3>2. i - 1 \in 1..Len(t) /\ (i - 1) + 1 = i
      BY <1>1, <2>2, <3>1
    <3>3. x = t[i - 1]
      BY <1>1, <3>1, <3>2
    <3>4. QED
      BY <1>2, <3>2, <3>3
  <2>3. QED
    BY <2>1, <2>2
<1>6. QED
  BY <1>1, <1>3, <1>4, <1>5 DEF t

-----------------------------------------------------------------------------
(* What the calls into the queue do to it; QueueOK is what QueueInv says   *)
(* of the queue for given dirty and processing sets.                       *)

QueueOK(q, d, pr) == Range(q) = d \ pr /\ NoRepeat(q)

LEMMA AddOK ==
    ASSUME TypeOK, QueueOK(queue, dirty, processing), NEW k \in Keys,
           QueueAdd(k), processing' = processing
    PROVE  /\ queue' \in Seq(Keys) /\ dirty' \subseteq Keys
           /\ QueueOK(queue', dirty', processing')
           /\ dirty' = dirty \/ dirty' = dirty \cup {k}
<1>1. CASE shuttingDown \/ k \in dirty
  BY <1>1 DEF QueueAdd, TypeOK, QueueOK
<1>2. CASE ~(shuttingDown \/ k \in dirty) /\ k \in processing
  BY <1>2 DEF QueueAdd, TypeOK, QueueOK
<1>3. CASE ~(shuttingDown \/ k \in dirty) /\ k \notin processing
  <2>1. queue' = Append(queue, k) /\ dirty' = dirty \cup {k}
    BY <1>3 DEF QueueAdd
  <2>2. queue \in Seq(Keys) /\ NoRepeat(queue) /\ k \notin Range(queue)
    BY <1>3 DEF TypeOK, QueueOK
  <2>3. /\ queue' \in Seq(Keys) /\ NoRepeat(queue')
        /\ Range(queue') = Range(queue) \cup {k}
    BY <2>1, <2>2, AppendNew
  <2>4. QED
    BY <1>3, <2>1, <2>3 DEF TypeOK, QueueOK
<1>4. QED
  BY <1>1, <1>2, <1>3

LEMMA DoneOK ==
    ASSUME TypeOK, QueueOK(queue, dirty, processing),
           NEW k \in processing, QueueDone(k), dirty' = dirty
    PROVE  /\ queue' \in Seq(Keys)
           /\ QueueOK(queue', dirty', processing')
<1>1. CASE k \in dirty
  <2>1. queue' = Append(queue, k) /\ processing' = processing \ {k}
    BY <1>1 DEF QueueDone
  <2>2. /\ queue \in Seq(Keys) /\ NoRepeat(queue) /\ k \notin Range(queue)
        /\ k \in Keys
    BY <1>1 DEF TypeOK, QueueOK
  <2>3. /\ queue' \in Seq(Keys) /\ NoRepeat(queue')
        /\ Range(queue') = Range(queue) \cup {k}
    BY <2>1, <2>2, AppendNew
  <2>4. QED
    BY <1>1, <2>1, <2>3 DEF QueueOK
<1>2. CASE k \notin dirty
  BY <1>2 DEF QueueDone, TypeOK, QueueOK
<1>3. QED
  BY <1>1, <1>2

-----------------------------------------------------------------------------
(* The invariant *)

LEMMA InvIsQueueOK ==
    QueueInv <=> /\ QueueOK(queue, dirty, processing)
                 /\ HeldIsProcessing /\ HeldOnce
BY DEF QueueInv, QueuedIsDirty, QueuedOnce, QueueOK, NoRepeat

LEMMA InitInv == Init => TypeOK /\ QueueInv
<1> SUFFICES ASSUME Init PROVE TypeOK /\ QueueInv
  OBVIOUS
<1>1. TypeOK
  BY EmptySeq DEF Init, TypeOK, Places
<1>2. Range(queue) = {} /\ NoRepeat(queue)
  BY <1>1, EmptyIsOnce DEF Init, TypeOK
<1>3. HeldIsProcessing /\ HeldOnce
  BY DEF Init, HeldIsProcessing, HeldOnce, Range
<1>4. QED
  BY <1>1, <1>2, <1>3, InvIsQueueOK DEF QueueOK, Init

(* One step per action; what it leaves alone is settled at the end. *)
LEMMA StepInv == TypeOK /\ QueueInv /\ [Next]_vars => TypeOK' /\ QueueInv'
<1> SUFFICES ASSUME TypeOK, QueueInv, [Next]_vars
             PROVE  TypeOK' /\ QueueInv'
  OBVIOUS
<1>0. QueueOK(queue, dirty, processing) /\ HeldIsProcessing /\ HeldOnce
  BY InvIsQueueOK
<1>a. ASSUME TypeOK', QueueOK(queue', dirty', processing'),
             HeldIsProcessing', HeldOnce'
      PROVE  TypeOK' /\ QueueInv'
  BY <1>a DEF QueueInv, QueuedIsDirty, QueuedOnce, QueueOK, NoRepeat
<1>b. ASSUME UNCHANGED <<processing, held, pc>>
      PROVE  HeldIsProcessing' /\ HeldOnce'
  BY <1>0, <1>b DEF HeldIsProcessing, HeldOnce
<1>1. ASSUME NEW k \in Keys, Enqueue(k) PROVE TypeOK' /\ QueueInv'
  <2>1. /\ queue' \in Seq(Keys) /\ dirty' \subseteq Keys
        /\ QueueOK(queue', dirty', processing')
    BY <1>0, <1>1, AddOK DEF Enqueue
  <2>2. TypeOK'
    BY <1>1, <2>1 DEF Enqueue, TypeOK
  <2>3. QED
    BY <1>1, <1>a, <1>b, <2>1, <2>2 DEF Enqueue
<1>2. ASSUME NEW k \in Keys, WaitingLoop(k) PROVE TypeOK' /\ QueueInv'
  <2>1. /\ queue' \in Seq(Keys) /\ dirty' \subseteq Keys
        /\ QueueOK(queue', dirty', processing')
    BY <1>0, <1>2, AddOK DEF WaitingLoop
  <2>2. TypeOK'
    BY <1>2, <2>1 DEF WaitingLoop, TypeOK
  <2>3. QED
    BY <1>2, <1>a, <1>b, <2>1, <2>2 DEF WaitingLoop
<1>3. ASSUME NEW p \in Workers, Get(p) PROVE TypeOK' /\ QueueInv'
  <2> DEFINE k == Head(queue)
  <2>1. /\ k \in Keys /\ Tail(queue) \in Seq(Keys) /\ NoRepeat(Tail(queue))
        /\ k \in Range(queue) /\ Range(Tail(queue)) = Range(queue) \ {k}
    BY <1>0, <1>3, TailOnce DEF Get, TypeOK, QueueOK
  <2>2. k \notin processing /\ k # Idle
    BY <1>0, <2>1, IdleIsNoKey DEF QueueOK
  <2>3. /\ queue' = Tail(queue) /\ dirty' = dirty \ {k}
        /\ processing' = processing \cup {k}
        /\ held' = [held EXCEPT ![p] = k]
        /\ pc[p] = "get" /\ pc' = [pc EXCEPT ![p] = "handle"]
        /\ UNCHANGED <<waiting, shuttingDown, returned>>
    BY <1>3 DEF Get
  <2> HIDE DEF k
  <2>4. TypeOK'
    BY <2>1, <2>3 DEF TypeOK, Places
  <2>5. QueueOK(queue', dirty', processing')
    BY <1>0, <2>1, <2>3 DEF QueueOK
  <2>6. \A q \in Workers : held[q] # k
    BY <1>0, <2>2 DEF HeldIsProcessing, Range, TypeOK
  <2>7. held[p] = Idle
    BY <1>0, <2>3 DEF HeldIsProcessing
  <2>8. HeldIsProcessing'
    BY <1>0, <2>2, <2>3, <2>7 DEF HeldIsProcessing, Range, TypeOK
  <2>9. HeldOnce'
    BY <1>0, <2>3, <2>6 DEF HeldOnce, TypeOK
  <2>10. QED
    BY <1>a, <2>4, <2>5, <2>8, <2>9
<1>4. ASSUME NEW p \in Workers, Exit(p) PROVE TypeOK' /\ QueueInv'
  <2>1. TypeOK' /\ QueueOK(queue', dirty', processing')
    BY <1>0, <1>4 DEF Exit, TypeOK, Places, QueueOK
  <2>2. HeldIsProcessing' /\ HeldOnce'
    BY <1>0, <1>4 DEF Exit, HeldIsProcessing, HeldOnce, TypeOK
  <2>3. QED
    BY <1>a, <2>1, <2>2
<1>5. ASSUME NEW p \in Workers, Succeed(p) \/ Fail(p)
      PROVE  TypeOK' /\ QueueInv'
  <2>0. held[p] \in Keys
    BY <1>0, <1>5 DEF Succeed, Fail, HeldIsProcessing, TypeOK
  <2>1. TypeOK' /\ QueueOK(queue', dirty', processing')
    BY <1>0, <1>5, <2>0 DEF Succeed, Fail, TypeOK, Places, QueueOK
  <2>2. HeldIsProcessing' /\ HeldOnce'
    BY <1>0, <1>5 DEF Succeed, Fail, HeldIsProcessing, HeldOnce, TypeOK
  <2>3. QED
    BY <1>a, <2>1, <2>2
<1>6. ASSUME NEW p \in Workers, Done(p) PROVE TypeOK' /\ QueueInv'
  <2> DEFINE k == held[p]
  <2>1. /\ pc[p] = "done" /\ QueueDone(k) /\ held' = [held EXCEPT ![p] = Idle]
        /\ processing' = processing \ {k}
        /\ pc' = [pc EXCEPT ![p] = "get"]
        /\ UNCHANGED <<dirty, waiting, shuttingDown, returned>>
    BY <1>6 DEF Done, QueueDone
  <2>2. k \in processing /\ k # Idle
    BY <1>0, <2>1 DEF HeldIsProcessing, Range, TypeOK
  <2>3. queue' \in Seq(Keys) /\ QueueOK(queue', dirty', processing')
    BY <1>0, <2>1, <2>2, DoneOK
  <2>4. \A q \in Workers \ {p} : held[q] # k
    BY <1>0, <2>2 DEF HeldOnce
  <2> HIDE DEF k
  <2>5. TypeOK'
    BY <2>1, <2>3 DEF TypeOK, Places
  <2>6. HeldIsProcessing'
    BY <1>0, <2>1, <2>2, <2>4 DEF HeldIsProcessing, Range, TypeOK, k
  <2>7. HeldOnce'
    BY <1>0, <2>1 DEF HeldOnce, TypeOK
  <2>8. QED
    BY <1>a, <2>3, <2>5, <2>6, <2>7
<1>7. ASSUME ShutDown \/ RunReturns PROVE TypeOK' /\ QueueInv'
  <2>1. TypeOK' /\ QueueOK(queue', dirty', processing')
    BY <1>0, <1>7 DEF ShutDown, RunReturns, TypeOK, QueueOK
  <2>2. QED
    BY <1>7, <1>a, <1>b, <2>1 DEF ShutDown, RunReturns
<1>8. CASE UNCHANGED vars
  <2>1. TypeOK' /\ QueueOK(queue', dirty', processing')
    BY <1>0, <1>8 DEF vars, TypeOK, QueueOK
  <2>2. QED
    BY <1>8, <1>a, <1>b, <2>1 DEF vars
<1>9. QED
  BY <1>1, <1>2, <1>3, <1>4, <1>5, <1>6, <1>7, <1>8 DEF Next

(* Every variable of the queue and its workers keeps its type. *)
THEOREM TypeCorrect == Spec => []TypeOK
<1>1. Spec => [](TypeOK /\ QueueInv)
  BY InitInv, StepInv, PTL DEF Spec
<1>2. QED
  BY <1>1, PTL

(* The queue, its dirty and processing sets and the workers' keys agree in *)
(* every reachable state: no key is lost, queued twice or handed out twice.*)
THEOREM QueueCorrect == Spec => []QueueInv
<1>1. Spec => [](TypeOK /\ QueueInv)
  BY InitInv, StepInv, PTL DEF Spec
<1>2. QED
  BY <1>1, PTL

-----------------------------------------------------------------------------
(* The shutdown *)

ExitInv ==
    /\ \A p \in Workers : pc[p] = "exited" => shuttingDown
    /\ DrainedOnExit

LEMMA StepExit ==
    TypeOK /\ QueueInv /\ ExitInv /\ [Next]_vars => ExitInv'
<1> SUFFICES ASSUME TypeOK, QueueInv, ExitInv, [Next]_vars PROVE ExitInv'
  OBVIOUS
<1>1. ASSUME NEW k \in Keys, Enqueue(k) \/ WaitingLoop(k) PROVE ExitInv'
  BY <1>1 DEF ExitInv, DrainedOnExit, Enqueue, WaitingLoop, QueueAdd
<1>2. ASSUME NEW p \in Workers, Exit(p) PROVE ExitInv'
  <2>1. /\ queue = <<>> /\ shuttingDown /\ pc' = [pc EXCEPT ![p] = "exited"]
        /\ UNCHANGED <<dirty, shuttingDown, held, processing>>
    BY <1>2 DEF Exit
  <2>2. dirty \subseteq processing
    <3>1. Range(queue) = {}
      BY <2>1, EmptyIsOnce DEF TypeOK
    <3>2. QED
      BY <3>1 DEF QueueInv, QueuedIsDirty
  <2>3. ASSUME \A q \in Workers : pc'[q] = "exited" PROVE dirty = {}
    <3>1. \A q \in Workers : held[q] = Idle
      BY <1>2, <2>1, <2>3 DEF QueueInv, HeldIsProcessing, TypeOK, Exit
    <3>2. processing = {}
      BY <3>1 DEF QueueInv, HeldIsProcessing, Range, TypeOK
    <3>3. QED
      BY <2>2, <3>2
  <2>4. QED
    BY <2>1, <2>3 DEF ExitInv, DrainedOnExit, TypeOK
<1>3. ASSUME NEW p \in Workers, Get(p) \/ Succeed(p) \/ Fail(p) \/ Done(p)
      PROVE  ExitInv'
  <2>1. pc'[p] # "exited" /\ shuttingDown' = shuttingDown
        /\ \A q \in Workers : pc'[q] = "exited" => pc[q] = "exited"
    BY <1>3 DEF Get, Succeed, Fail, Done, TypeOK
  <2>2. QED
    BY <2>1 DEF ExitInv, DrainedOnExit
<1>4. ASSUME ShutDown \/ RunReturns \/ UNCHANGED vars PROVE ExitInv'
  BY <1>4 DEF ShutDown, RunReturns, vars, ExitInv, DrainedOnExit
<1>5. QED
  BY <1>1, <1>2, <1>3, <1>4 DEF Next

(* When all workers have left their loops, every accepted key was handled. *)
THEOREM ExitDrains == Spec => []DrainedOnExit
<1>1. Init => ExitInv
  BY DEF Init, ExitInv, DrainedOnExit
<1>2. Spec => [](TypeOK /\ QueueInv /\ ExitInv)
  BY <1>1, InitInv, StepInv, StepExit, PTL DEF Spec
<1>3. ExitInv => DrainedOnExit
  BY DEF ExitInv
<1>4. QED
  BY <1>2, <1>3, PTL

-----------------------------------------------------------------------------
(* The refinement *)

LEMMA StepRefines ==
    TypeOK /\ QueueInv /\ [Next]_vars => [SF!SFNext]_(SF!sfvars)
<1> SUFFICES ASSUME TypeOK, QueueInv, [Next]_vars
             PROVE  SF!SFNext \/ UNCHANGED <<dirty, waiting, held>>
  BY DEF SF!sfvars
<1>1. ASSUME NEW k \in Keys, Enqueue(k)
      PROVE  SF!Request(k) \/ UNCHANGED <<dirty, waiting, held>>
  BY <1>1 DEF Enqueue, QueueAdd, SF!Request
<1>2. ASSUME NEW k \in Keys, WaitingLoop(k) PROVE SF!Fire(k)
  BY <1>2 DEF WaitingLoop, QueueAdd, SF!Fire
<1>3. ASSUME NEW p \in Workers, Get(p) PROVE SF!Begin(p, Head(queue))
  <2> DEFINE k == Head(queue)
  <2>1. /\ pc[p] = "get" /\ dirty' = dirty \ {k} /\ waiting' = waiting
        /\ held' = [held EXCEPT ![p] = k] /\ queue # <<>>
    BY <1>3 DEF Get
  <2>2. k \in Range(queue) /\ k \in Keys
    BY <2>1, TailOnce DEF TypeOK, QueueInv, QueuedOnce, NoRepeat
  <2>3. k \in dirty /\ k \notin processing /\ k # Idle
    BY <2>2, IdleIsNoKey DEF QueueInv, QueuedIsDirty
  <2>4. held[p] = Idle
    BY <2>1 DEF QueueInv, HeldIsProcessing
  <2>5. \A q \in Workers : held[q] # k
    BY <2>3 DEF QueueInv, HeldIsProcessing, Range, TypeOK
  <2>6. QED
    BY <2>1, <2>3, <2>4, <2>5 DEF SF!Begin
<1>4. ASSUME NEW p \in Workers, Fail(p)
      PROVE  SF!Defer(p) \/ UNCHANGED <<dirty, waiting, held>>
  BY <1>4 DEF Fail, SF!Defer, QueueInv, HeldIsProcessing
<1>5. ASSUME NEW p \in Workers, Done(p) PROVE SF!End(p)
  BY <1>5 DEF Done, SF!End, QueueInv, HeldIsProcessing
<1>6. ASSUME \/ \E p \in Workers : Exit(p) \/ Succeed(p)
             \/ ShutDown \/ RunReturns \/ UNCHANGED vars
      PROVE  UNCHANGED <<dirty, waiting, held>>
  BY <1>6 DEF Exit, Succeed, ShutDown, RunReturns, vars
<1>7. ASSUME NEW p \in Workers, Get(p) PROVE Head(queue) \in Keys
  BY <1>7, HeadTailProperties DEF Get, TypeOK
<1>8. QED
  BY <1>1, <1>2, <1>3, <1>4, <1>5, <1>6, <1>7 DEF Next, SF!SFNext

(* The queue with its workers implements SingleFlight, so that whatever is *)
(* shown of a controller over SingleFlight holds over this queue.          *)
THEOREM Refinement == Spec => ImplementsSingleFlight
<1>1. Init => SF!SFInit
  BY DEF Init, SF!SFInit
<1>2. Spec => [](TypeOK /\ QueueInv)
  BY InitInv, StepInv, PTL DEF Spec
<1>3. QED
  BY <1>1, <1>2, StepRefines, PTL DEF Spec, ImplementsSingleFlight, SF!SFSpec
=============================================================================
