-------------------- MODULE ResourceChangeNotifierProofs --------------------
(***************************************************************************)
(* That no thread of the notifier sleeps through its wake-up, for any      *)
(* finite number of producers, any subscribers, changes and queue size.    *)
(***************************************************************************)
EXTENDS ResourceChangeNotifier, FiniteSets, FiniteSetTheorems, TLAPS

\* The producers that active_notify_count_ counts.
Inside == {p \in Producers : producer[p] \in {"check", "push", "signal", "leave"}}

\* NoLostWakeUp, and what keeps it: a thread about to sleep is in the state of
\* one asleep (its mutex is held, so nobody could wake it yet, but nobody could
\* have passed by either), the flag is up from the moment shutdown() began, and
\* active_notify_count_ counts who is inside, so that it is never negative.
WakeUpInv ==
  /\ active_notify_count_ = Cardinality(Inside)
  /\ producer \in [Producers -> {"out", "check", "push", "signal", "leave", "drain"}]
  /\ worker = "falling" => queue_ = <<>>
  /\ worker = "asleep" /\ queue_ # <<>> => \E p \in Producers : producer[p] = "signal"
  /\ main \in {"falling", "asleep"} =>
       active_notify_count_ > 0 \/ \E p \in Producers : producer[p] = "drain"
  /\ main # "running" => shutdown_flag_ = TRUE
  /\ main \in {"join", "returned"} => worker \notin {"falling", "asleep"}

\* The notifier starts with nobody asleep and nobody inside notify().
LEMMA WakeUpInit == Init => WakeUpInv
<1> SUFFICES ASSUME Init PROVE WakeUpInv
  OBVIOUS
<1>1. Inside = {}
  BY DEF Init, Inside
<1>2. Cardinality(Inside) = 0
  BY <1>1, FS_EmptySet
<1> QED
  BY <1>2 DEF Init, WakeUpInv

\* With finitely many producers the count is a natural number.
LEMMA CountIsNatural ==
  ASSUME IsFiniteSet(Producers), WakeUpInv
  PROVE  IsFiniteSet(Inside) /\ active_notify_count_ \in Nat
<1>1. IsFiniteSet(Inside)
  BY FS_Subset, Inside \subseteq Producers DEF Inside
<1> QED
  BY <1>1, FS_CardinalityType DEF WakeUpInv

\* A step of notify() keeps the invariant: a change is pushed before its signal,
\* and the last producer out announces itself.
LEMMA WakeUpNotify ==
  ASSUME IsFiniteSet(Producers), WakeUpInv, NEW p \in Producers, Notify(p)
  PROVE  WakeUpInv'
<1>0. IsFiniteSet(Inside) /\ active_notify_count_ \in Nat
  BY CountIsNatural
<1>1. CASE Enter(p)
  <2>1. Inside' = Inside \union {p} /\ p \notin Inside
    BY <1>1 DEF Enter, Inside, WakeUpInv
  <2>2. Cardinality(Inside') = Cardinality(Inside) + 1
    BY <1>0, <2>1, FS_AddElement
  <2> QED
    BY <1>0, <1>1, <2>2 DEF Enter, WakeUpInv, Unchanged_Producer
<1>2. CASE CheckFlag(p)
  <2>1. Inside' = Inside
    BY <1>2 DEF CheckFlag, Inside, WakeUpInv
  <2> QED
    BY <1>2, <2>1 DEF CheckFlag, WakeUpInv, Unchanged_Producer
<1>3. CASE Push(p)
  <2>1. Inside' = Inside
    BY <1>3 DEF Push, Inside, WakeUpInv
  <2> QED
    BY <1>3, <2>1 DEF Push, QueueMutexFree, WakeUpInv, Unchanged_Producer
<1>4. CASE Signal(p)
  <2>1. Inside' = Inside
    BY <1>4 DEF Signal, Inside, WakeUpInv
  <2> QED
    BY <1>4, <2>1 DEF Signal, WakeUpInv, Unchanged_Producer
<1>5. CASE Leave(p)
  <2>1. Inside' = Inside \ {p} /\ p \in Inside
    BY <1>5 DEF Leave, Inside, WakeUpInv
  <2>2. Cardinality(Inside') = Cardinality(Inside) - 1
    BY <1>0, <2>1, FS_RemoveElement
  <2> QED
    BY <1>0, <1>5, <2>2 DEF Leave, WakeUpInv, Unchanged_Producer
<1>6. CASE TellDrained(p)
  <2>1. Inside' = Inside
    BY <1>6 DEF TellDrained, Inside, WakeUpInv
  <2> QED
    BY <1>6, <2>1 DEF TellDrained, DrainMutexFree, WakeUpInv, Unchanged_Producer
<1> QED
  BY <1>1, <1>2, <1>3, <1>4, <1>5, <1>6 DEF Notify

\* A step of the worker keeps it: it goes to sleep only over an empty queue, and
\* not once the flag is up.
LEMMA WakeUpWorker ==
  ASSUME IsFiniteSet(Producers), WakeUpInv, Worker
  PROVE  WakeUpInv'
<1> USE DEF WakeUpInv, Inside, Unchanged_Worker
<1>1. CASE WorkerTakes
  BY <1>1 DEF WorkerTakes
<1>2. CASE WorkerSleeps
  BY <1>2 DEF WorkerSleeps
<1>3. CASE WorkerSnapshots
  BY <1>3 DEF WorkerSnapshots
<1>4. CASE WorkerCalls
  BY <1>4 DEF WorkerCalls
<1>5. CASE WorkerMovesOn
  BY <1>5 DEF WorkerMovesOn
<1> QED
  BY <1>1, <1>2, <1>3, <1>4, <1>5 DEF Worker

\* A step of shutdown() keeps it: the signal to the worker comes when the worker
\* is not between its look at the flag and its sleep.
LEMMA WakeUpShutdown ==
  ASSUME IsFiniteSet(Producers), WakeUpInv, BeginShutdown \/ Shutdown
  PROVE  WakeUpInv'
<1>0. active_notify_count_ \in Nat
  BY CountIsNatural
<1> USE DEF WakeUpInv, Inside, Unchanged_Main
<1>1. CASE BeginShutdown
  BY <1>1 DEF BeginShutdown
<1>2. CASE AwaitDrained
  BY <1>0, <1>2 DEF AwaitDrained
<1>3. CASE MainSleeps
  BY <1>3 DEF MainSleeps
<1>4. CASE WakeWorker
  BY <1>4 DEF WakeWorker, QueueMutexFree
<1>5. CASE Join
  BY <1>5 DEF Join
<1> QED
  BY <1>1, <1>2, <1>3, <1>4, <1>5 DEF Shutdown

\* No thread of the notifier sleeps through its wake-up (notify(), worker_loop()
\* and shutdown() of resource_change_notifier.cpp).
THEOREM NotifierWakesUp ==
  ASSUME IsFiniteSet(Producers)
  PROVE  Spec => []NoLostWakeUp
<1>1. WakeUpInv /\ [Next]_vars => WakeUpInv'
  <2> SUFFICES ASSUME WakeUpInv, [Next]_vars PROVE WakeUpInv'
    OBVIOUS
  <2>1. CASE \E p \in Producers : Notify(p)
    BY <2>1, WakeUpNotify
  <2>2. CASE \E s \in Subscribers : subscribe(s) \/ unsubscribe(s)
    BY <2>2 DEF WakeUpInv, Inside, subscribe, unsubscribe
  <2>3. CASE Worker
    BY <2>3, WakeUpWorker
  <2>4. CASE BeginShutdown \/ Shutdown
    BY <2>4, WakeUpShutdown
  <2>5. CASE UNCHANGED vars
    BY <2>5 DEF WakeUpInv, Inside, vars
  <2> QED
    BY <2>1, <2>2, <2>3, <2>4, <2>5 DEF Next
<1>2. WakeUpInv => NoLostWakeUp
  BY DEF WakeUpInv, NoLostWakeUp
<1> QED
  BY WakeUpInit, <1>1, <1>2, PTL DEF Spec
=============================================================================
